---- MODULE Spec2Model ----
(***************************************************************************)
(* Scope and symbol resolution of srcly: the token overlay                 *)
(* (app/services/focus_overlay.py, compute_focus_overlay) and the scope    *)
(* graph (app/services/data_flow_analysis.py, DataFlowAnalyzer).           *)
(*                                                                         *)
(* The concrete syntax tree is the input.  It is a sequence of nodes, each *)
(* with the attributes the analyses read from a tree-sitter node: type,    *)
(* parent, the field it fills in its parent, text, start line, end line    *)
(* and start column.  Trees are generated from short statement lists, each *)
(* statement expanded into the node shape tree-sitter-typescript gives it. *)
(***************************************************************************)
EXTENDS Integers, Sequences, FiniteSets, TLC

VARIABLES
    tree,       \* the parsed file: Seq of nodes, node 1 the program
    open,       \* input side: the bodies still open at the end of the file
    nitems,     \* input side: statements in the file
    pc,         \* position of the compute_focus_overlay call
    scopes,     \* compute_focus_overlay: `scopes`, in creation order
    scope_boundary_map, \* compute_focus_overlay: node -> id of the scope it opened
    usages,     \* compute_focus_overlay: `usages`, in document order
    request,    \* the four line numbers of the request, normalised
    focus_fn_scope, \* compute_focus_overlay: id of the focus function scope
    tokens,     \* compute_focus_overlay: the returned token list
    call_args,  \* the four line numbers and the path of the request, as passed
    prev_tokens, \* the token list the call before returned
    analyzer,   \* DataFlowAnalyzer instance: scopes, usages, definitions, stack
    graph,      \* result of the last analyze_file call
    prev_graph, \* result of the analyze_file call before it
    uuid_issued, \* uuid4 values drawn by the process so far
    analyses,   \* analyze_file calls made
    node_is,    \* what `is` gave for two handles on one syntax node, once asked
    scan,       \* scan_codebase: its futures, analysis_results and file nodes
    calls       \* one DataFlowAnalyzer and the analyze_file calls in flight on it

vars == <<tree, open, nitems, pc, scopes, scope_boundary_map, usages,
          request, focus_fn_scope, tokens, call_args, prev_tokens, analyzer,
          graph, prev_graph, uuid_issued, analyses, node_is, scan, calls>>

----------------------------------------------------------------------------
(* Bounds *)

\* statements per generated file
MaxItems == 4

\* statements per file of SpecWide
MaxWide == 3

\* analyze_file calls on the file
MaxAnalyses == 2

----------------------------------------------------------------------------
(* Input alphabet *)

Names == {"x", "Map"}

\* The path handed to compute_focus_overlay.
file_path == "a.ts"

\* Files on disk by path, the only TypeScript one being file_path, and the
\* characters of each one's file name (Path.name).
Paths == {file_path, "a.py", "a.ts.bak", ".ts", "ts", "a.tsx.PY"}

PathName(path) ==
    CASE path = "a.ts"     -> <<"a", ".", "t", "s">>
      [] path = "a.py"     -> <<"a", ".", "p", "y">>
      [] path = "a.ts.bak" -> <<"a", ".", "t", "s", ".", "b", "a", "k">>
      [] path = ".ts"      -> <<".", "t", "s">>
      [] path = "ts"       -> <<"t", "s">>
      [] path = "a.tsx.PY" -> <<"a", ".", "t", "s", "x", ".", "P", "Y">>

\* Import specifiers and the files around the importing file: "./b" is a
\* relative specifier for which b.ts exists, "./missing" a relative one with
\* no file, "@/b" matches a tsconfig paths pattern and exists, "path" is a
\* bare package name.
RelativeSpecifiers == {"./b", "./missing"}

TsconfigSpecifiers == {"@/b"}

ExistingModules == {"./b", "@/b"}

ImportSources == {"./b", "./missing", "path"}

_BUILTINS == {"console", "Math", "JSON", "Promise", "Array", "Set", "Map",
              "Object", "undefined", "NaN", "Infinity"}

----------------------------------------------------------------------------
(* Syntax trees *)

Node(t, p, f, x, l) ==
    [type |-> t, parent |-> p, field |-> f, text |-> x, line |-> l]

\* A statement of a generated file. up: how many enclosing bodies are closed
\* before it; nl: whether it starts a new line.
Item(k, n, p, s, u, nl) ==
    [k |-> k, name |-> n, param |-> p, source |-> s, up |-> u, nl |-> nl]

Containers == {"function", "function_declaration", "arrow", "block", "catch",
               "function_pattern", "function_default", "generator_declaration",
               "if", "if_else", "if_else_if", "if_callback", "try_finally",
               "try_catch_finally", "switch", "for_of", "for_of_reuse"}

\* The nodes of one statement; b is the node of the body that holds it,
\* base the number of nodes before it, l its line.
ParamNodes(p, fp, base, l) ==
    IF p = "" THEN <<>>
    ELSE << Node("required_parameter", fp, "", "", l),
            Node("identifier", base + 1, "pattern", p, l) >>

\* The forms of a destructuring pattern with one bound name.
PatternForms == {"shorthand", "renamed", "rest", "default", "nested",
                 "array", "array_default"}

\* The nodes of a pattern of form f that binds name; other is the property
\* name of a renamed or nested form and the identifier that is the default
\* value of a default form. The pattern fills field fld of node holder.
\*   shorthand { name }        renamed { other: name }    rest { ...name }
\*   default { name = other }  nested { other: { name } }
\*   array [name]              array_default [name = other]
PatternNodes(f, name, other, holder, fld, base, l) ==
    CASE f = "shorthand" ->
           << Node("object_pattern", holder, fld, "", l),
              Node("shorthand_property_identifier_pattern", base + 1, "", name, l) >>
      [] f = "renamed" ->
           << Node("object_pattern", holder, fld, "", l),
              Node("pair_pattern", base + 1, "", "", l),
              Node("property_identifier", base + 2, "key", other, l),
              Node("identifier", base + 2, "value", name, l) >>
      [] f = "rest" ->
           << Node("object_pattern", holder, fld, "", l),
              Node("rest_pattern", base + 1, "", "", l),
              Node("identifier", base + 2, "", name, l) >>
      [] f = "default" ->
           << Node("object_pattern", holder, fld, "", l),
              Node("object_assignment_pattern", base + 1, "", "", l),
              Node("shorthand_property_identifier_pattern", base + 2, "left", name, l),
              Node("identifier", base + 2, "right", other, l) >>
      [] f = "nested" ->
           << Node("object_pattern", holder, fld, "", l),
              Node("pair_pattern", base + 1, "", "", l),
              Node("property_identifier", base + 2, "key", other, l),
              Node("object_pattern", base + 2, "value", "", l),
              Node("shorthand_property_identifier_pattern", base + 4, "", name, l) >>
      [] f = "array" ->
           << Node("array_pattern", holder, fld, "", l),
              Node("identifier", base + 1, "", name, l) >>
      [] f = "array_default" ->
           << Node("array_pattern", holder, fld, "", l),
              Node("assignment_pattern", base + 1, "", "", l),
              Node("identifier", base + 2, "left", name, l),
              Node("identifier", base + 2, "right", other, l) >>

\* `if (name)`: the if_statement, a child of b, with its condition.
IfNodes(name, b, fld, base, l) ==
    << Node("if_statement", b, fld, "", l),
       Node("parenthesized_expression", base + 1, "condition", "", l),
       Node("identifier", base + 2, "", name, l) >>

\* The clauses of a switch body, by shape: the node types of its clauses.
SwitchShapes == { <<"switch_case">>, <<"switch_case", "switch_case">>,
                  <<"switch_case", "switch_default">>,
                  <<"switch_case", "switch_case", "switch_default">> }

\* The clause nodes of a switch_body at node body; a case has the value 1.
RECURSIVE ClauseNodes(_, _, _, _)
ClauseNodes(shape, body, base, l) ==
    IF shape = <<>> THEN <<>>
    ELSE LET head == IF Head(shape) = "switch_case"
                     THEN << Node("switch_case", body, "", "", l),
                             Node("number", base + 1, "value", "1", l) >>
                     ELSE << Node(Head(shape), body, "", "", l) >>
         IN head \o ClauseNodes(Tail(shape), body, base + Len(head), l)

ItemNodes(it, b, base, l) ==
    CASE it.k = "function" ->
           << Node("expression_statement", b, "", "", l),
              Node("function_expression", base + 1, "", "", l),
              Node("formal_parameters", base + 2, "parameters", "", l) >>
           \o ParamNodes(it.param, base + 3, base + 3, l)
           \o << Node("statement_block", base + 2, "body", "", l) >>
      [] it.k = "function_declaration" ->
           << Node("function_declaration", b, "", "", l),
              Node("identifier", base + 1, "name", it.name, l),
              Node("formal_parameters", base + 1, "parameters", "", l) >>
           \o ParamNodes(it.param, base + 3, base + 3, l)
           \o << Node("statement_block", base + 1, "body", "", l) >>
      [] it.k = "generator_declaration" ->
           \* function* name() {
           << Node("generator_function_declaration", b, "", "", l),
              Node("identifier", base + 1, "name", it.name, l),
              Node("formal_parameters", base + 1, "parameters", "", l),
              Node("statement_block", base + 1, "body", "", l) >>
      [] it.k = "class_declaration" ->
           \* class name {}
           << Node("class_declaration", b, "", "", l),
              Node("type_identifier", base + 1, "name", it.name, l),
              Node("class_body", base + 1, "body", "", l) >>
      [] it.k = "arrow" ->
           << Node("expression_statement", b, "", "", l),
              Node("arrow_function", base + 1, "", "", l),
              Node("identifier", base + 2, "parameter", it.param, l),
              Node("statement_block", base + 2, "body", "", l) >>
      [] it.k = "arrow_expression" ->
           \* param => source;
           << Node("expression_statement", b, "", "", l),
              Node("arrow_function", base + 1, "", "", l),
              Node("identifier", base + 2, "parameter", it.param, l),
              Node("identifier", base + 2, "body", it.source, l) >>
      [] it.k = "arrow_no_parameter" ->
           \* () => source;
           << Node("expression_statement", b, "", "", l),
              Node("arrow_function", base + 1, "", "", l),
              Node("formal_parameters", base + 2, "parameters", "", l),
              Node("identifier", base + 2, "body", it.source, l) >>
      [] it.k = "for_of" ->
           \* for (const name of source) {
           << Node("for_in_statement", b, "", "", l),
              Node("const", base + 1, "kind", "const", l),
              Node("identifier", base + 1, "left", it.name, l),
              Node("identifier", base + 1, "right", it.source, l),
              Node("statement_block", base + 1, "body", "", l) >>
      [] it.k = "for_of_reuse" ->
           \* for (name of source) {
           << Node("for_in_statement", b, "", "", l),
              Node("identifier", base + 1, "left", it.name, l),
              Node("identifier", base + 1, "right", it.source, l),
              Node("statement_block", base + 1, "body", "", l) >>
      [] it.k = "block" ->
           << Node("statement_block", b, "", "", l) >>
      [] it.k = "catch" ->
           << Node("try_statement", b, "", "", l),
              Node("statement_block", base + 1, "body", "", l),
              Node("catch_clause", base + 1, "handler", "", l),
              Node("identifier", base + 3, "parameter", it.param, l),
              Node("statement_block", base + 3, "body", "", l) >>
      [] it.k = "decl" ->
           << Node("lexical_declaration", b, "", "", l),
              Node("variable_declarator", base + 1, "", "", l),
              Node("identifier", base + 2, "name", it.name, l) >>
      [] it.k = "use" ->
           << Node("expression_statement", b, "", "", l),
              Node("identifier", base + 1, "", it.name, l) >>
      [] it.k = "if" ->
           \* if (name) {
           IfNodes(it.name, b, "", base, l)
           \o << Node("statement_block", base + 1, "consequence", "", l) >>
      [] it.k = "if_bare" ->
           \* if (name) name;
           IfNodes(it.name, b, "", base, l)
           \o << Node("expression_statement", base + 1, "consequence", "", l),
                 Node("identifier", base + 4, "", it.name, l) >>
      [] it.k = "if_else" ->
           \* if (name) {} else {
           IfNodes(it.name, b, "", base, l)
           \o << Node("statement_block", base + 1, "consequence", "", l),
                 Node("else_clause", base + 1, "alternative", "", l),
                 Node("statement_block", base + 5, "", "", l) >>
      [] it.k = "if_else_if" ->
           \* if (name) {} else if (name) {
           IfNodes(it.name, b, "", base, l)
           \o << Node("statement_block", base + 1, "consequence", "", l),
                 Node("else_clause", base + 1, "alternative", "", l) >>
           \o IfNodes(it.name, base + 5, "", base + 5, l)
           \o << Node("statement_block", base + 6, "consequence", "", l) >>
      [] it.k = "if_callback" ->
           \* if (f(() => { if (name) {} })) {
           << Node("if_statement", b, "", "", l),
              Node("parenthesized_expression", base + 1, "condition", "", l),
              Node("call_expression", base + 2, "", "", l),
              Node("identifier", base + 3, "function", "f", l),
              Node("arguments", base + 3, "arguments", "", l),
              Node("arrow_function", base + 5, "", "", l),
              Node("formal_parameters", base + 6, "parameters", "", l),
              Node("statement_block", base + 6, "body", "", l) >>
           \o IfNodes(it.name, base + 8, "", base + 8, l)
           \o << Node("statement_block", base + 9, "consequence", "", l),
                 Node("statement_block", base + 1, "consequence", "", l) >>
      [] it.k = "try_finally" ->
           \* try {} finally {
           << Node("try_statement", b, "", "", l),
              Node("statement_block", base + 1, "body", "", l),
              Node("finally_clause", base + 1, "finalizer", "", l),
              Node("statement_block", base + 3, "body", "", l) >>
      [] it.k = "try_catch_finally" ->
           \* try {} catch (param) {} finally {
           << Node("try_statement", b, "", "", l),
              Node("statement_block", base + 1, "body", "", l),
              Node("catch_clause", base + 1, "handler", "", l),
              Node("identifier", base + 3, "parameter", it.param, l),
              Node("statement_block", base + 3, "body", "", l),
              Node("finally_clause", base + 1, "finalizer", "", l),
              Node("statement_block", base + 6, "body", "", l) >>
      [] it.k = "switch" ->
           \* switch (name) { case 1: ... default:
           << Node("switch_statement", b, "", "", l),
              Node("parenthesized_expression", base + 1, "value", "", l),
              Node("identifier", base + 2, "", it.name, l),
              Node("switch_body", base + 1, "body", "", l) >>
           \o ClauseNodes(it.source, base + 4, base + 4, l)
      [] it.k = "literal" ->
           \* true; false; null; undefined;  each a node of its own type
           << Node("expression_statement", b, "", "", l),
              Node(it.name, base + 1, "", it.name, l) >>
      [] it.k = "pattern" ->
           \* const <pattern> = o;
           << Node("lexical_declaration", b, "", "", l),
              Node("variable_declarator", base + 1, "", "", l) >>
           \o PatternNodes(it.param, it.name, it.source, base + 2, "name", base + 2, l)
           \o << Node("identifier", base + 2, "value", "o", l) >>
      [] it.k = "function_pattern" ->
           \* (function (<pattern>) {
           << Node("expression_statement", b, "", "", l),
              Node("function_expression", base + 1, "", "", l),
              Node("formal_parameters", base + 2, "parameters", "", l),
              Node("required_parameter", base + 3, "", "", l) >>
           \o PatternNodes(it.param, it.name, it.source, base + 4, "pattern", base + 4, l)
           \o << Node("statement_block", base + 2, "body", "", l) >>
      [] it.k = "function_default" ->
           \* (function (name = source) {
           << Node("expression_statement", b, "", "", l),
              Node("function_expression", base + 1, "", "", l),
              Node("formal_parameters", base + 2, "parameters", "", l),
              Node("required_parameter", base + 3, "", "", l),
              Node("identifier", base + 4, "pattern", it.name, l),
              Node("identifier", base + 4, "value", it.source, l),
              Node("statement_block", base + 2, "body", "", l) >>
      [] it.k = "jsx_element" ->
           \* <name param={source}></name>;
           << Node("expression_statement", b, "", "", l),
              Node("jsx_element", base + 1, "", "", l),
              Node("jsx_opening_element", base + 2, "open_tag", "", l),
              Node("identifier", base + 3, "name", it.name, l),
              Node("jsx_attribute", base + 3, "attribute", "", l),
              Node("property_identifier", base + 5, "", it.param, l),
              Node("jsx_expression", base + 5, "", "", l),
              Node("identifier", base + 7, "", it.source, l),
              Node("jsx_closing_element", base + 2, "close_tag", "", l),
              Node("identifier", base + 9, "name", it.name, l) >>
      [] it.k = "jsx_self_closing" ->
           \* <name param={source} />;
           << Node("expression_statement", b, "", "", l),
              Node("jsx_self_closing_element", base + 1, "", "", l),
              Node("identifier", base + 2, "name", it.name, l),
              Node("jsx_attribute", base + 2, "attribute", "", l),
              Node("property_identifier", base + 4, "", it.param, l),
              Node("jsx_expression", base + 4, "", "", l),
              Node("identifier", base + 6, "", it.source, l) >>
      [] it.k = "import" ->
           << Node("import_statement", b, "", "", l),
              Node("import_clause", base + 1, "", "", l),
              Node("named_imports", base + 2, "", "", l),
              Node("import_specifier", base + 3, "", "", l),
              Node("identifier", base + 4, "name", it.name, l),
              Node("string", base + 1, "source", it.source, l) >>

Drop(s, k) == SubSeq(s, 1, Len(s) - k)

RECURSIVE IsAncestor(_, _, _)
\* a is n or an ancestor of n
IsAncestor(t, a, n) ==
    IF n = a THEN TRUE
    ELSE IF n = 0 THEN FALSE
    ELSE IsAncestor(t, a, t[n].parent)

Max(S) == CHOOSE m \in S : \A k \in S : k <= m

\* F of a value that is computed once, as an assignment to a local does.
With(value, F(_)) == CHOOSE r \in {F(v) : v \in {value}} : TRUE

\* The file with one more statement at its end. Every node carries its end
\* line (the last line of its subtree) and its column (here its position in
\* document order, which is all the analyses need of it).
ParsedWith(t, st, it) ==
    LET b   == IF st = <<>> THEN 1 ELSE st[Len(st)]
        l   == IF it.nl THEN t[1].end_line + 1 ELSE t[1].end_line
        new == ItemNodes(it, b, Len(t), l)
    IN [i \in 1..(Len(t) + Len(new)) |->
          IF i <= Len(t)
          THEN IF IsAncestor(t, i, b) THEN [t[i] EXCEPT !.end_line = l] ELSE t[i]
          ELSE [type |-> new[i - Len(t)].type, parent |-> new[i - Len(t)].parent,
                field |-> new[i - Len(t)].field, text |-> new[i - Len(t)].text,
                line |-> l, end_line |-> l, col |-> i]]

EmptyFile ==
    << [type |-> "program", parent |-> 0, field |-> "", text |-> "",
        line |-> 1, end_line |-> 1, col |-> 1] >>

\* Tree navigation, as tree-sitter offers it.
children(t, n) ==
    SelectSeq([i \in 1..Len(t) |-> i], LAMBDA j : t[j].parent = n)

child_by_field_name(t, n, f) ==
    LET c == {j \in 1..Len(t) : t[j].parent = n /\ t[j].field = f}
    IN IF c = {} THEN 0 ELSE CHOOSE j \in c : \A k \in c : j <= k

root_node == 1

----------------------------------------------------------------------------
(* compute_focus_overlay: helpers *)

_SUPPORTED_TYPESCRIPT_SUFFIXES ==
    { <<".", "t", "s">>, <<".", "t", "s", "x">>,
      <<".", "m", "t", "s">>, <<".", "c", "t", "s">> }

\* str.lower, on the letters of the file names.
lower(s) ==
    [i \in 1..Len(s) |-> CASE s[i] = "P" -> "p"
                           [] s[i] = "Y" -> "y"
                           [] OTHER -> s[i]]

\* PurePath.suffix: the name from its last dot on, when that dot is neither
\* the first nor the last character.
suffix(name) ==
    LET dots == {i \in 1..Len(name) : name[i] = "."}
        i    == IF dots = {} THEN 0 ELSE CHOOSE d \in dots : \A e \in dots : e <= d
    IN IF 1 < i /\ i < Len(name) THEN SubSeq(name, i, Len(name)) ELSE <<>>

\* str.endswith
endswith(s, e) ==
    Len(e) <= Len(s) /\ SubSeq(s, Len(s) - Len(e) + 1, Len(s)) = e

\* Mutant of _is_supported_typescript_file: the file name ends with one of
\* the suffixes, whatever Path.suffix is.
_is_supported_by_ending(path) ==
    \E e \in _SUPPORTED_TYPESCRIPT_SUFFIXES : endswith(lower(PathName(path)), e)

_is_supported_typescript_file(path) ==
    IF lower(suffix(PathName(path))) \in _SUPPORTED_TYPESCRIPT_SUFFIXES THEN TRUE
    ELSE IF endswith(lower(PathName(path)), <<".", "d", ".", "t", "s">>) THEN TRUE
    ELSE FALSE

\* Python's None, where a definition or a scope id is expected.
None == <<>>

DictSet(d, k, v) == [j \in (DOMAIN d) \cup {k} |-> IF j = k THEN v ELSE d[j]]

_is_function_node(t, n) ==
    t[n].type \in {"function_declaration", "function_expression", "arrow_function",
                   "method_definition", "generator_function",
                   "generator_function_declaration"}

_is_catch_clause(t, n) == t[n].type = "catch_clause"

_is_scope_boundary(t, n) ==
    IF t[n].type \in {"block", "statement_block"}
    THEN LET parent == t[n].parent
         IN IF parent # 0 /\ (_is_function_node(t, parent) \/ _is_catch_clause(t, parent))
            THEN FALSE
            ELSE TRUE
    ELSE IF _is_catch_clause(t, n) THEN TRUE
    ELSE _is_function_node(t, n)

_scope_type(t, n) ==
    IF _is_function_node(t, n) THEN "function"
    ELSE IF _is_catch_clause(t, n) THEN "catch"
    ELSE "block"

\* scopes[sid]: the scope with that id.
ScopeIndex(sc, sid) == CHOOSE k \in 1..Len(sc) : sc[k].id = sid

ScopeById(sc, sid) == sc[ScopeIndex(sc, sid)]

\* Every scope is made without a parent.
new_scope_without_parent(sc, scope_type, t, node, parent_id) ==
    LET scope_counter == Len(sc) + 1
        start_line    == t[node].line
        end_line      == t[node].end_line
        sid           == <<scope_type, start_line, end_line, scope_counter>>
    IN Append(sc, [id |-> sid, type |-> scope_type, parent_id |-> None,
                   start_line |-> start_line, end_line |-> end_line,
                   vars |-> {}])

\* new_scope: the scope table with one more scope; its id is the last one's.
new_scope(sc, scope_type, t, node, parent_id) ==
    LET scope_counter == Len(sc) + 1
        start_line    == t[node].line
        end_line      == t[node].end_line
        sid           == <<scope_type, start_line, end_line, scope_counter>>
    IN Append(sc, [id |-> sid, type |-> scope_type, parent_id |-> parent_id,
                   start_line |-> start_line, end_line |-> end_line,
                   vars |-> {}])

\* _add_def: scope.vars[name] = d. vars is the set of a scope's bindings, at
\* most one per name.
_add_def(sc, t, name_node, kind, scope_id, scope_type, import_source, import_is_internal) ==
    LET name == t[name_node].text
        d == [name |-> name, kind |-> kind, scope_id |-> scope_id,
              scope_type |-> scope_type, def_line |-> t[name_node].line,
              def_col |-> t[name_node].col, import_source |-> import_source,
              import_is_internal |-> import_is_internal]
        k == ScopeIndex(sc, scope_id)
    IN IF name = "" THEN sc
       ELSE [sc EXCEPT ![k].vars = {e \in @ : e.name # name} \cup {d}]

RECURSIVE _add_defs(_, _, _, _, _, _, _, _)
\* _add_def for each node of a list, in order.
_add_defs(sc, t, name_nodes, kind, scope_id, scope_type, import_source, import_is_internal) ==
    IF name_nodes = <<>> THEN sc
    ELSE _add_defs(_add_def(sc, t, Head(name_nodes), kind, scope_id, scope_type,
                            import_source, import_is_internal),
                   t, Tail(name_nodes), kind, scope_id, scope_type,
                   import_source, import_is_internal)

RECURSIVE walk(_, _), walk_all(_, _)
\* _collect_pattern_identifiers.walk: the binding identifiers below x.
walk(t, x) ==
    IF t[x].type \in {"identifier", "shorthand_property_identifier"} THEN <<x>>
    ELSE IF t[x].type = "shorthand_property_identifier_pattern" THEN <<x>>
    ELSE IF t[x].type = "pair_pattern"
         THEN LET value == child_by_field_name(t, x, "value")
              IN IF value # 0 THEN walk(t, value) ELSE walk_all(t, children(t, x))
    ELSE IF t[x].type \in {"member_expression", "call_expression", "property_identifier",
                           "jsx_opening_element", "jsx_closing_element",
                           "jsx_self_closing_element"}
         THEN <<>>
    ELSE walk_all(t, children(t, x))

walk_all(t, cs) ==
    IF cs = <<>> THEN <<>> ELSE walk(t, Head(cs)) \o walk_all(t, Tail(cs))

_collect_pattern_identifiers(t, n) == walk(t, n)

\* None, where a path is expected.
NoPath == ""

_resolve_to_existing_ts_module(candidate) ==
    IF candidate \in ExistingModules THEN candidate ELSE NoPath

\* (is_internal, resolved_path_if_internal_and_resolved)
_classify_import_source(import_path) ==
    IF import_path \in RelativeSpecifiers
    THEN <<TRUE, _resolve_to_existing_ts_module(import_path)>>
    ELSE IF import_path \in TsconfigSpecifiers
            /\ _resolve_to_existing_ts_module(import_path) # NoPath
         THEN <<TRUE, _resolve_to_existing_ts_module(import_path)>>
    ELSE <<FALSE, NoPath>>

----------------------------------------------------------------------------
(* compute_focus_overlay, phase 1: create scopes and record definitions *)

ImportNameNodes(t, n) ==
    LET by_field == child_by_field_name(t, n, "clause")
        clauses  == SelectSeq(children(t, n), LAMBDA c : t[c].type = "import_clause")
        clause   == IF by_field # 0 THEN by_field
                    ELSE IF clauses # <<>> THEN Head(clauses) ELSE 0
        cs       == IF clause = 0 THEN <<>> ELSE children(t, clause)
        defaults == SelectSeq(cs, LAMBDA c : t[c].type = "identifier")
        ns_name(c) ==
            LET f  == child_by_field_name(t, c, "name")
                is == SelectSeq(children(t, c), LAMBDA i : t[i].type = "identifier")
            IN IF f # 0 THEN f ELSE IF is # <<>> THEN Head(is) ELSE 0
        nss      == SelectSeq(cs, LAMBDA c : t[c].type = "namespace_import"
                                             /\ ns_name(c) # 0)
        namespaces == [i \in 1..Len(nss) |-> ns_name(nss[i])]
        ni_field == IF clause = 0 THEN 0 ELSE child_by_field_name(t, clause, "named_imports")
        nis      == SelectSeq(cs, LAMBDA c : t[c].type = "named_imports")
        named_imports == IF ni_field # 0 THEN ni_field
                         ELSE IF nis # <<>> THEN Head(nis) ELSE 0
        is_type(s) == \E c \in 1..Len(t) :
                         t[c].parent = s /\ t[c].type = "type" /\ t[c].text = "type"
        local(s) == IF child_by_field_name(t, s, "alias") # 0
                    THEN child_by_field_name(t, s, "alias")
                    ELSE child_by_field_name(t, s, "name")
        specs    == IF named_imports = 0 THEN <<>>
                    ELSE SelectSeq(children(t, named_imports),
                                   LAMBDA s : t[s].type = "import_specifier"
                                              /\ ~is_type(s) /\ local(s) # 0)
        named    == [i \in 1..Len(specs) |-> local(specs[i])]
    IN defaults \o namespaces \o named

\* The definitions node n records; next_scope and current_scope are scope ids.
Definitions(sc, t, n, current_scope, next_scope, global_scope) ==
    LET ty == t[n].type
        next_type == ScopeById(sc, next_scope).type
        curr_type == ScopeById(sc, current_scope).type
    IN
    IF ty = "import_statement"
    THEN LET is_type_import == \E c \in 1..Len(t) :
                 t[c].parent = n /\ t[c].type = "type" /\ t[c].text = "type"
             source_node   == child_by_field_name(t, n, "source")
             import_source == IF source_node # 0 THEN t[source_node].text ELSE ""
             is_internal   == _classify_import_source(import_source)[1]
         IN IF is_type_import THEN sc
            ELSE _add_defs(sc, t, ImportNameNodes(t, n), "import", global_scope,
                           ScopeById(sc, global_scope).type, import_source, is_internal)
    ELSE IF ty = "variable_declarator"
    THEN LET name_node == child_by_field_name(t, n, "name")
         IN IF name_node = 0 THEN sc
            ELSE IF t[name_node].type = "identifier"
                 THEN _add_def(sc, t, name_node, "local", next_scope, next_type, "", FALSE)
                 ELSE _add_defs(sc, t, _collect_pattern_identifiers(t, name_node),
                                "local", next_scope, next_type, "", FALSE)
    ELSE IF ty \in {"required_parameter", "optional_parameter", "rest_parameter"}
    THEN _add_defs(sc, t, _collect_pattern_identifiers(t, n), "param",
                   next_scope, next_type, "", FALSE)
    ELSE IF ty = "identifier" /\ t[n].parent # 0 /\ t[t[n].parent].type = "arrow_function"
    THEN _add_def(sc, t, n, "param", next_scope, next_type, "", FALSE)
    ELSE IF ty = "catch_clause"
    THEN LET param == child_by_field_name(t, n, "parameter")
         IN IF param = 0 THEN sc
            ELSE IF t[param].type = "identifier"
                 THEN _add_def(sc, t, param, "param", next_scope, "catch", "", FALSE)
                 ELSE _add_defs(sc, t, _collect_pattern_identifiers(t, param),
                                "param", next_scope, "catch", "", FALSE)
    ELSE IF ty \in {"function_declaration", "class_declaration"}
    THEN LET name_node == child_by_field_name(t, n, "name")
         IN IF name_node = 0 THEN sc
            ELSE _add_def(sc, t, name_node,
                          IF curr_type # "global" THEN "local" ELSE "module",
                          current_scope, curr_type, "", FALSE)
    ELSE IF ty = "for_in_statement"
    THEN LET is_decl == \E c \in 1..Len(t) :
                 t[c].parent = n /\ t[c].type \in {"const", "let", "var"}
             left == child_by_field_name(t, n, "left")
         IN IF ~is_decl \/ left = 0 THEN sc
            ELSE IF t[left].type = "identifier"
                 THEN _add_def(sc, t, left, "local", next_scope, next_type, "", FALSE)
                 ELSE _add_defs(sc, t, _collect_pattern_identifiers(t, left),
                                "local", next_scope, next_type, "", FALSE)
    ELSE sc

EmptyDict == [j \in {} |-> 0]

\* The scope a traversal is in below node n: the scope opened by the nearest
\* scope boundary among n and its ancestors, the global scope if there is none.
\* It is the next_scope that the visit of n hands to the visits of its children.
RECURSIVE ScopeBelow(_, _, _, _)
ScopeBelow(t, map, n, global_scope) ==
    IF n = 0 THEN global_scope
    ELSE IF n \in DOMAIN map THEN map[n]
    ELSE ScopeBelow(t, map, t[n].parent, global_scope)

\* One visit of phase1_traverse (lines 627-818). st = [scopes, map]: the scope
\* table and scope_boundary_map so far.
Phase1Visit(t, n, global_scope, st) ==
    LET current_scope == ScopeBelow(t, st.map, t[n].parent, global_scope)
        boundary   == _is_scope_boundary(t, n) /\ n # root_node
        sc1        == IF boundary
                      THEN new_scope(st.scopes, _scope_type(t, n), t, n, current_scope)
                      ELSE st.scopes
        next_scope == IF boundary THEN sc1[Len(sc1)].id ELSE current_scope
        map1       == IF boundary THEN DictSet(st.map, n, next_scope) ELSE st.map
        sc2        == Definitions(sc1, t, n, current_scope, next_scope, global_scope)
    IN [scopes |-> sc2, map |-> map1]

\* phase1_traverse visits a node and then its children in order, which is the
\* order of the nodes in the file: the visits of nodes n, n+1, ... in turn.
RECURSIVE phase1_traverse(_, _, _, _)
phase1_traverse(t, n, global_scope, st) ==
    IF n > Len(t) \/ st.scopes = <<>> THEN st
    ELSE phase1_traverse(t, n + 1, global_scope, Phase1Visit(t, n, global_scope, st))

\* Lines 461-487 and 823: the global scope, then the traversal from the root.
Phase1Result(t) ==
    LET sc0 == new_scope(<<>>, "global", t, root_node, None)
    IN phase1_traverse(t, root_node, sc0[1].id, [scopes |-> sc0, map |-> EmptyDict])

----------------------------------------------------------------------------
(* compute_focus_overlay, phase 2: record usages *)

\* Mutant of _resolve: the lookup reads the Global scope only.
_resolve_global_only(sc, name, start_scope) ==
    IF \E d \in sc[1].vars : d.name = name
    THEN CHOOSE d \in sc[1].vars : d.name = name
    ELSE None

\* _resolve: the scope chain from start_scope up through parent_id.
RECURSIVE _resolve(_, _, _)
_resolve(sc, name, start_scope) ==
    LET curr == ScopeById(sc, start_scope)
    IN IF \E d \in curr.vars : d.name = name
       THEN CHOOSE d \in curr.vars : d.name = name
       ELSE IF curr.parent_id # None
            THEN _resolve(sc, name, curr.parent_id)
            ELSE None

RECURSIVE _ancestor_chain(_, _)
_ancestor_chain(sc, scope_id) ==
    LET curr == ScopeById(sc, scope_id)
    IN IF curr.parent_id = None THEN <<curr.id>>
       ELSE <<curr.id>> \o _ancestor_chain(sc, curr.parent_id)

\* `a is b` for two Node objects got from the tree by separate requests
\* (n.children, .parent, .child_by_field_name). Of two different nodes it is
\* False. Of one node it is what the tree-sitter binding makes it: True if
\* the binding hands out one object per node, False if each request wraps
\* the node anew. same is that outcome, one for the whole process.
WrapperOutcomes == {"same object", "new object"}

Is(a, b, same) == a = b /\ same = "same object"

\* `check is target` for some check on the walk from n up while
\* `check is not p` (lines 876-882 and 894-899).
RECURSIVE OnWalk(_, _, _, _, _)
OnWalk(t, check, p, target, same) ==
    IF check = 0 \/ Is(check, p, same) THEN FALSE
    ELSE IF Is(check, target, same) THEN TRUE
    ELSE OnWalk(t, t[check].parent, p, target, same)

\* The loop of lines 864-917: whether n lies in a binding pattern.
RECURSIVE is_definition_part(_, _, _, _)
is_definition_part(t, n, curr, same) ==
    LET p == t[curr].parent
    IN IF p = 0 THEN FALSE
       ELSE IF t[p].type = "variable_declarator"
               /\ child_by_field_name(t, p, "name") # 0
               /\ OnWalk(t, n, p, child_by_field_name(t, p, "name"), same)
            THEN TRUE
       ELSE IF t[p].type \in {"required_parameter", "optional_parameter", "rest_parameter"}
            THEN TRUE
       ELSE IF t[p].type = "catch_clause"
               /\ child_by_field_name(t, p, "parameter") # 0
               /\ OnWalk(t, n, p, child_by_field_name(t, p, "parameter"), same)
            THEN TRUE
       ELSE IF t[p].type \in {"program", "statement_block", "function_declaration",
                              "function_expression", "arrow_function",
                              "method_definition", "class_declaration"}
            THEN FALSE
       ELSE is_definition_part(t, n, p, same)

\* Whether phase 2 records identifier-like node n as a usage (lines 836-921).
IsUsage(t, n, same) ==
    LET parent == t[n].parent
        pt     == t[parent].type
    IN /\ t[n].type \in {"identifier", "undefined", "null", "true", "false"}
       /\ parent # 0
       /\ ~(pt = "variable_declarator" /\ child_by_field_name(t, parent, "name") = n)
       /\ ~(pt = "function_declaration" /\ child_by_field_name(t, parent, "name") = n)
       /\ ~(pt = "class_declaration" /\ child_by_field_name(t, parent, "name") = n)
       /\ pt \notin {"required_parameter", "optional_parameter", "rest_parameter"}
       /\ ~(pt = "catch_clause" /\ child_by_field_name(t, parent, "parameter") = n)
       /\ ~(pt = "for_in_statement" /\ child_by_field_name(t, parent, "left") = n
            /\ \E c \in 1..Len(t) : t[c].parent = parent
                                     /\ t[c].type \in {"const", "let", "var"})
       /\ pt # "property_identifier"
       /\ pt \notin {"jsx_opening_element", "jsx_closing_element",
                     "jsx_self_closing_element"}
       /\ ~is_definition_part(t, n, n, same)
       /\ t[n].text # ""

\* A _Usage; node and scope are kept beside the fields of the dataclass: the
\* node it was read from and the scope resolution started at.
Usage(sc, t, n, next_scope) ==
    [name |-> t[n].text, line |-> t[n].line, start_col |-> t[n].col,
     end_col |-> t[n].col + 1, resolved |-> _resolve(sc, t[n].text, next_scope),
     node |-> n, scope |-> next_scope]

\* phase2_traverse visits the nodes in the order of the file; the scope of a
\* visit is the one phase 1 was in at that node. The usages it leaves, for
\* each outcome of `is`.
phase2_traverse(sc, map, t) ==
    LET usages_(same) ==
            LET ns == SelectSeq([i \in 1..Len(t) |-> i],
                                LAMBDA n : IsUsage(t, n, same))
            IN <<>> \o [i \in 1..Len(ns) |->
                          Usage(sc, t, ns[i], ScopeBelow(t, map, ns[i], sc[1].id))]
    IN ("same object" :> usages_("same object"))
       @@ ("new object" :> usages_("new object"))

----------------------------------------------------------------------------
(* compute_focus_overlay: focus scope and tokens *)

max(a, b) == IF a >= b THEN a ELSE b

min(a, b) == IF a <= b THEN a ELSE b

\* Lines 445-459: the request's line numbers, normalised.
Normalised(t, slice_start_line, slice_end_line, focus_start_line, focus_end_line) ==
    LET file_total_lines == t[root_node].end_line
        ss == max(1, slice_start_line)
        se == max(ss, slice_end_line)
        fs == max(1, focus_start_line)
        fe == max(fs, focus_end_line)
    IN [focus_start_line |-> min(fs, file_total_lines),
        focus_end_line   |-> min(fe, file_total_lines),
        slice_start_line |-> min(ss, file_total_lines),
        slice_end_line   |-> min(se, file_total_lines)]

\* Mutant of smallest_containing_function_scope: the first candidate, in the
\* order of scopes.values(), whatever its span.
first_containing_function_scope(sc, r) ==
    LET candidates == {k \in 1..Len(sc) :
                         /\ sc[k].type = "function"
                         /\ sc[k].start_line <= r.focus_start_line
                         /\ sc[k].end_line >= r.focus_end_line}
    IN IF candidates = {} THEN sc[1].id
       ELSE sc[CHOOSE k \in candidates : \A j \in candidates : k <= j].id

\* min(candidates, key = (span, start_line)): the first of the least ones, in
\* the order of scopes.values().
smallest_containing_function_scope(sc, r) ==
    LET candidates == {k \in 1..Len(sc) :
                         /\ sc[k].type = "function"
                         /\ sc[k].start_line <= r.focus_start_line
                         /\ sc[k].end_line >= r.focus_end_line}
        span(k) == sc[k].end_line - sc[k].start_line
        less(a, b) == \/ span(a) < span(b)
                      \/ span(a) = span(b) /\ sc[a].start_line < sc[b].start_line
        least == {k \in candidates : \A j \in candidates : ~less(j, k)}
    IN IF candidates = {} THEN sc[1].id
       ELSE sc[CHOOSE k \in least : \A j \in least : k <= j].id

InSeq(s, x) == \E i \in 1..Len(s) : s[i] = x

\* Mutant of symbol_id: the id names the declaring scope, whose id carries the
\* scope counter, where the declaration's line and column should be.
symbol_id_of_scope(d) ==
    IF d.kind = "import" THEN <<"imp", file_path, d.import_source, d.name>>
    ELSE <<"def", file_path, d.scope_id, d.name>>

\* Lines 995 and 1004: the symbol id of a binding. A tuple of the values the
\* f-string joins.
symbol_id(d) ==
    IF d.kind = "import" THEN <<"imp", file_path, d.import_source, d.name>>
    ELSE <<"def", file_path, d.def_line, d.def_col, d.name>>

\* Mutant of ClassifiedMissing: a name with no binding is taken for a
\* module-level one.
ClassifiedMissing_as_module(name) ==
    [category |-> "module", tooltip |-> <<"Module scope", 0>>,
     symbol_id |-> <<"unresolved", name>>]

\* Lines 984-992: a usage with no binding.
ClassifiedMissing(name) ==
    IF name \in _BUILTINS
    THEN [category |-> "builtin", tooltip |-> <<"Builtin/global">>,
          symbol_id |-> <<"builtin", name>>]
    ELSE [category |-> "unresolved", tooltip |-> <<"Unresolved identifier">>,
          symbol_id |-> <<"unresolved", name>>]

\* Lines 994-1001: a usage bound to an import.
ClassifiedImport(d) ==
    IF d.import_is_internal
    THEN [category |-> "importInternal",
          tooltip |-> <<"Import (internal)", d.import_source>>,
          symbol_id |-> symbol_id(d)]
    ELSE [category |-> "importExternal",
          tooltip |-> <<"Import (external)", d.import_source>>,
          symbol_id |-> symbol_id(d)]

\* Mutant of ClassifiedByScope: the two chain tests of lines 1023-1028 are
\* exchanged.
ClassifiedByScope_exchanged(sc, focus_scope, d) ==
    LET def_scope == ScopeById(sc, d.scope_id)
        global_scope == sc[1].id
    IN IF def_scope.type = "global" \/ def_scope.parent_id = None
       THEN [category |-> "module", tooltip |-> <<"Module scope", d.def_line>>,
             symbol_id |-> symbol_id(d)]
       ELSE IF InSeq(_ancestor_chain(sc, focus_scope), def_scope.id)
               /\ def_scope.id # global_scope
       THEN [category |-> "local", tooltip |-> <<"Local declaration", d.def_line>>,
             symbol_id |-> symbol_id(d)]
       ELSE IF InSeq(_ancestor_chain(sc, def_scope.id), focus_scope)
       THEN [category |-> "capture",
             tooltip |-> <<"Captured from outer scope", d.def_line>>,
             symbol_id |-> symbol_id(d)]
       ELSE [category |-> "local", tooltip |-> <<"Local declaration", d.def_line>>,
             symbol_id |-> symbol_id(d)]

\* Lines 1013-1032: a binding that is neither an import nor a parameter.
ClassifiedByScope(sc, focus_scope, d) ==
    LET def_scope == ScopeById(sc, d.scope_id)
        global_scope == sc[1].id
    IN IF def_scope.type = "global" \/ def_scope.parent_id = None
       THEN [category |-> "module", tooltip |-> <<"Module scope", d.def_line>>,
             symbol_id |-> symbol_id(d)]
       ELSE IF InSeq(_ancestor_chain(sc, def_scope.id), focus_scope)
       THEN [category |-> "local", tooltip |-> <<"Local declaration", d.def_line>>,
             symbol_id |-> symbol_id(d)]
       ELSE IF InSeq(_ancestor_chain(sc, focus_scope), def_scope.id)
               /\ def_scope.id # global_scope
       THEN [category |-> "capture",
             tooltip |-> <<"Captured from outer scope", d.def_line>>,
             symbol_id |-> symbol_id(d)]
       ELSE [category |-> "local", tooltip |-> <<"Local declaration", d.def_line>>,
             symbol_id |-> symbol_id(d)]

\* Mutant of ClassifiedDeclared: a parameter is classified by its scope, like
\* any other declaration.
ClassifiedDeclared_by_scope(sc, focus_scope, d) ==
    ClassifiedByScope(sc, focus_scope, d)

\* Mutant of ClassifiedDeclared: a parameter of a function outside the focus
\* function is a capture.
ClassifiedDeclared_param_captured(sc, focus_scope, d) ==
    IF d.kind = "param" /\ d.scope_id = focus_scope
    THEN [category |-> "param", tooltip |-> <<"Parameter">>,
          symbol_id |-> symbol_id(d)]
    ELSE ClassifiedByScope(sc, focus_scope, d)

\* Lines 1003-1032: a binding that is no import.
ClassifiedDeclared(sc, focus_scope, d) ==
    IF d.kind = "param"
    THEN [category |-> "param", tooltip |-> <<"Parameter">>,
          symbol_id |-> symbol_id(d)]
    ELSE ClassifiedByScope(sc, focus_scope, d)

\* Lines 978-1032: category, tooltip and symbol id of usage u.
Classified(sc, focus_scope, u) ==
    IF u.resolved = None THEN ClassifiedMissing(u.name)
    ELSE IF u.resolved.kind = "import" THEN ClassifiedImport(u.resolved)
    ELSE ClassifiedDeclared(sc, focus_scope, u.resolved)

\* Mutant of BuildTokens: the slice range is not consulted.
RECURSIVE BuildTokens_focus_only(_, _, _, _, _)
BuildTokens_focus_only(sc, us, i, r, focus_scope) ==
    IF i > Len(us) THEN <<>>
    ELSE LET u == us[i]
             c == Classified(sc, focus_scope, u)
             skip == \/ u.line < r.focus_start_line \/ u.line > r.focus_end_line
                     \/ u.end_col <= u.start_col
         IN (IF skip THEN <<>>
             ELSE << [fileLine |-> u.line, startCol |-> u.start_col,
                      endCol |-> u.end_col, category |-> c.category,
                      symbolId |-> c.symbol_id, tooltip |-> c.tooltip,
                      usage |-> i] >>)
            \o BuildTokens_focus_only(sc, us, i + 1, r, focus_scope)

\* Lines 964-1043: one token for each usage inside both ranges. usage is the
\* usage's place in `usages`, kept beside the fields of OverlayToken.
RECURSIVE BuildTokens(_, _, _, _, _)
BuildTokens(sc, us, i, r, focus_scope) ==
    IF i > Len(us) THEN <<>>
    ELSE LET u == us[i]
             c == Classified(sc, focus_scope, u)
             skip == \/ u.line < r.slice_start_line \/ u.line > r.slice_end_line
                     \/ u.line < r.focus_start_line \/ u.line > r.focus_end_line
                     \/ u.end_col <= u.start_col
         IN (IF skip THEN <<>>
             ELSE << [fileLine |-> u.line, startCol |-> u.start_col,
                      endCol |-> u.end_col, category |-> c.category,
                      symbolId |-> c.symbol_id, tooltip |-> c.tooltip,
                      usage |-> i] >>)
            \o BuildTokens(sc, us, i + 1, r, focus_scope)

----------------------------------------------------------------------------
(* DataFlowAnalyzer *)

\* _is_scope_boundary
df_is_scope_boundary(t, n) ==
    t[n].type \in {"function_declaration", "function_expression", "arrow_function",
                   "method_definition", "class_declaration", "statement_block",
                   "jsx_element", "jsx_self_closing_element", "for_statement",
                   "catch_clause", "finally_clause", "switch_statement",
                   "switch_case", "switch_default", "while_statement",
                   "do_statement", "if_statement"}

_get_scope_type(t, n) ==
    LET ty == t[n].type
        parent == t[n].parent
    IN
    IF ty \in {"function_declaration", "function_expression", "arrow_function",
               "method_definition"} THEN "function"
    ELSE IF ty = "class_declaration" THEN "class"
    ELSE IF ty \in {"jsx_element", "jsx_self_closing_element"} THEN "jsx"
    ELSE IF ty = "if_statement" THEN "if"
    ELSE IF ty = "for_statement" THEN "for"
    ELSE IF ty = "catch_clause" THEN "catch"
    ELSE IF ty = "finally_clause" THEN "finally"
    ELSE IF ty = "switch_statement" THEN "switch"
    ELSE IF ty = "switch_case" THEN "case"
    ELSE IF ty = "switch_default" THEN "default"
    ELSE IF ty = "while_statement" THEN "while"
    ELSE IF ty = "do_statement" THEN "do"
    ELSE IF ty \in {"block", "statement_block"}
    THEN IF parent # 0 /\ t[parent].type = "try_statement" THEN "try"
         ELSE IF parent # 0 /\ t[parent].type = "if_statement"
                 /\ child_by_field_name(t, parent, "consequence") = n
              THEN "if_branch"
         ELSE IF parent # 0 /\ t[parent].type = "else_clause"
                 /\ t[parent].parent # 0
                 /\ t[t[parent].parent].type = "if_statement"
              THEN "else_branch"
         ELSE "block"
    ELSE "None"

\* TreeSitterAnalyzer._get_function_name, for a function that is declared, or
\* is the value of a declarator, an assignment or a pair, or is a statement of
\* its own; none here is a call argument, an IIFE or a JSX child.
_get_function_name(t, n) ==
    LET parent == t[n].parent
        name_of(m, f) == IF child_by_field_name(t, m, f) # 0
                         THEN t[child_by_field_name(t, m, f)].text
                         ELSE "(anonymous)"
    IN IF t[n].type \in {"function_declaration", "generator_function_declaration",
                         "method_definition"}
       THEN name_of(n, "name")
       ELSE IF parent # 0 /\ t[parent].type = "variable_declarator"
            THEN name_of(parent, "name")
       ELSE IF parent # 0 /\ t[parent].type = "assignment_expression"
            THEN name_of(parent, "left")
       ELSE IF parent # 0 /\ t[parent].type = "pair"
            THEN name_of(parent, "key")
       ELSE "(anonymous)"

\* A label is a tuple of the parts of the label's text.
_get_scope_label(t, n, scope_type) ==
    IF scope_type = "function"
    THEN IF _get_function_name(t, n) \notin {"", "(anonymous)"}
         THEN <<_get_function_name(t, n), "(function)">>
         ELSE <<"function">>
    ELSE IF scope_type = "class"
    THEN IF child_by_field_name(t, n, "name") # 0
         THEN <<t[child_by_field_name(t, n, "name")].text, "(class)">>
         ELSE <<"class">>
    ELSE IF scope_type = "jsx"
    THEN LET open_tag == child_by_field_name(t, n, "open_tag")
             name_node == IF t[n].type = "jsx_element"
                          THEN IF open_tag # 0
                               THEN child_by_field_name(t, open_tag, "name") ELSE 0
                          ELSE child_by_field_name(t, n, "name")
         IN IF name_node # 0 /\ t[name_node].text # ""
            THEN <<"<", t[name_node].text, ">">> ELSE <<"JSX">>
    ELSE IF scope_type = "if_branch" THEN <<"then">>
    ELSE IF scope_type = "if_condition" THEN <<"condition">>
    ELSE IF scope_type = "else_branch" THEN <<"else">>
    ELSE <<scope_type>>

DfScopeIndex(sc, sid) == CHOOSE k \in 1..Len(sc) : sc[k].id = sid

\* The first definition of a name stays.
VariablesSetOnce(variables, definition) ==
    IF \E i \in 1..Len(variables) : variables[i].name = definition.name
    THEN variables
    ELSE Append(variables, definition)

\* scope.variables[name] = definition, on a dict kept in insertion order.
VariablesSet(variables, definition) ==
    IF \E i \in 1..Len(variables) : variables[i].name = definition.name
    THEN [i \in 1..Len(variables) |->
            IF variables[i].name = definition.name THEN definition ELSE variables[i]]
    ELSE Append(variables, definition)

\* _add_definition. st = [scopes, usages, definitions, stack, uuid]; stack is
\* current_scope_stack; at is the node being visited.
_add_definition(st, t, stack, node, kind, scope_offset, at) ==
    LET scope_idx == -1 + scope_offset
        scope == IF -scope_idx > Len(stack) THEN stack[1]
                 ELSE stack[Len(stack) + 1 + scope_idx]
        definition == [id |-> st.uuid + 1, name |-> t[node].text, kind |-> kind,
                       scope_id |-> scope, start_line |-> t[node].line,
                       end_line |-> t[node].end_line, at |-> at]
        k == DfScopeIndex(st.scopes, scope)
    IN [st EXCEPT !.scopes[k].variables = VariablesSet(@, definition),
                  !.definitions = Append(@, definition),
                  !.uuid = @ + 1]

RECURSIVE _add_definitions(_, _, _, _, _, _)
_add_definitions(st, t, stack, nodes, kind, at) ==
    IF nodes = <<>> THEN st
    ELSE _add_definitions(_add_definition(st, t, stack, Head(nodes), kind, 0, at),
                          t, stack, Tail(nodes), kind, at)

_handle_definitions(st, t, stack, n) ==
    LET ty == t[n].type
        name_node == child_by_field_name(t, n, "name")
    IN IF ty = "variable_declarator"
       THEN IF name_node # 0 /\ t[name_node].type = "identifier"
            THEN _add_definition(st, t, stack, name_node, "variable", 0, n)
            ELSE st
       ELSE IF ty \in {"required_parameter", "optional_parameter"}
       THEN _add_definitions(st, t, stack,
                SelectSeq(children(t, n), LAMBDA c : t[c].type = "identifier"),
                "param", n)
       ELSE IF ty = "function_declaration"
       THEN IF name_node # 0
            THEN _add_definition(st, t, stack, name_node, "function", -1, n)
            ELSE st
       ELSE IF ty = "class_declaration"
       THEN IF name_node # 0
            THEN _add_definition(st, t, stack, name_node, "class", -1, n)
            ELSE st
       ELSE st

\* Only the name of an opening element is taken for a tag name.
_is_jsx_tag_name_opening_only(t, n) ==
    LET parent == t[n].parent
    IN /\ parent # 0
       /\ t[parent].type = "jsx_opening_element"
       /\ child_by_field_name(t, parent, "name") = n

_is_jsx_tag_name(t, n) ==
    LET parent == t[n].parent
    IN /\ parent # 0
       /\ t[parent].type \in {"jsx_opening_element", "jsx_closing_element",
                              "jsx_self_closing_element"}
       /\ child_by_field_name(t, parent, "name") = n

\* _get_jsx_attribute_name: the property name of the jsx_attribute n lies in,
\* looking no further up than the first scope boundary.
RECURSIVE _get_jsx_attribute_name(_, _)
_get_jsx_attribute_name(t, curr) ==
    IF curr = 0 THEN ""
    ELSE IF t[curr].type = "jsx_attribute"
    THEN LET prop == child_by_field_name(t, curr, "property")
             ids  == SelectSeq(children(t, curr),
                               LAMBDA c : t[c].type = "property_identifier")
         IN IF prop # 0 THEN t[prop].text
            ELSE IF ids # <<>> THEN t[Head(ids)].text ELSE ""
    ELSE IF df_is_scope_boundary(t, curr) THEN ""
    ELSE _get_jsx_attribute_name(t, t[curr].parent)

\* _resolve_variable: the id of the definition, 0 for None.
RECURSIVE _resolve_variable(_, _, _)
_resolve_variable(sc, stack, name) ==
    IF stack = <<>> THEN 0
    ELSE LET scope == sc[DfScopeIndex(sc, stack[Len(stack)])]
             hit == {i \in 1..Len(scope.variables) : scope.variables[i].name = name}
         IN IF hit # {} THEN scope.variables[CHOOSE i \in hit : TRUE].id
            ELSE _resolve_variable(sc, Drop(stack, 1), name)

_add_usage(st, t, stack, n) ==
    IF _is_jsx_tag_name(t, n) THEN st
    ELSE LET usage == [id |-> st.uuid + 1, name |-> t[n].text,
                       scope_id |-> stack[Len(stack)],
                       def_id |-> _resolve_variable(st.scopes, stack, t[n].text),
                       start_line |-> t[n].line, end_line |-> t[n].end_line,
                       context |-> "read",
                       attribute_name |-> _get_jsx_attribute_name(t, n),
                       at |-> n]
         IN [st EXCEPT !.usages = Append(@, usage), !.uuid = @ + 1]

_handle_usages(st, t, stack, n) ==
    LET parent == t[n].parent
        pt == t[parent].type
    IN IF t[n].type # "identifier" THEN st
       ELSE IF pt = "variable_declarator" /\ child_by_field_name(t, parent, "name") = n
       THEN st
       ELSE IF pt = "function_declaration" /\ child_by_field_name(t, parent, "name") = n
       THEN st
       ELSE IF pt = "class_declaration" /\ child_by_field_name(t, parent, "name") = n
       THEN st
       ELSE IF pt \in {"required_parameter", "optional_parameter"} THEN st
       ELSE IF pt = "property_identifier" THEN st
       ELSE _add_usage(st, t, stack, n)

\* One visit of _traverse, up to the recursion (lines 91-112): the scope the
\* node opens is pushed, and stays on the stack until the visit returns.
TraverseVisit(st, t, n) ==
    LET created == df_is_scope_boundary(t, n)
        scope_type == _get_scope_type(t, n)
        new_scope_ == [id |-> st.uuid + 1, type |-> scope_type,
                       parent_id |-> st.stack[Len(st.stack)],
                       start_line |-> t[n].line, end_line |-> t[n].end_line,
                       label |-> _get_scope_label(t, n, scope_type),
                       variables |-> <<>>, children |-> <<>>]
        k  == DfScopeIndex(st.scopes, new_scope_.parent_id)
        st1 == IF created
               THEN [st EXCEPT !.scopes = Append([@ EXCEPT ![k].children =
                                                    Append(@, new_scope_.id)],
                                                 new_scope_),
                               !.stack = Append(@, new_scope_.id),
                               !.uuid = @ + 1]
               ELSE st
        st2 == _handle_definitions(st1, t, st1.stack, n)
    IN _handle_usages(st2, t, st2.stack, n)

\* _traverse_if_statement_children, lines 460-471: the scope of the condition
\* is made a child of the scope on top of the stack and pushed.
PushCondition(st, t, condition_node) ==
    LET condition_scope ==
            [id |-> st.uuid + 1, type |-> "if_condition",
             parent_id |-> st.stack[Len(st.stack)],
             start_line |-> t[condition_node].line,
             end_line |-> t[condition_node].end_line,
             label |-> _get_scope_label(t, condition_node, "if_condition"),
             variables |-> <<>>, children |-> <<>>]
        k == DfScopeIndex(st.scopes, condition_scope.parent_id)
    IN [st EXCEPT !.scopes = Append([@ EXCEPT ![k].children =
                                       Append(@, condition_scope.id)],
                                    condition_scope),
                  !.stack = Append(@, condition_scope.id),
                  !.uuid = @ + 1]

\* The steps of _traverse(n), in the order they are taken: the visit of n,
\* the traversals of its children, and the pop of the scope n opened. The
\* children of an if_statement are traversed by
\* _traverse_if_statement_children: the condition inside a scope of its own,
\* then every child that `is` not the condition.
RECURSIVE Traversal(_, _, _), TraversalOfAll(_, _, _)
Traversal(t, n, same) ==
    LET condition_node == child_by_field_name(t, n, "condition")
        remaining == SelectSeq(children(t, n),
                               LAMBDA child : ~Is(child, condition_node, same))
    IN << [step |-> "visit", node |-> n] >>
       \o (IF t[n].type = "if_statement"
           THEN (IF condition_node # 0
                 THEN << [step |-> "push_condition", node |-> condition_node] >>
                      \o Traversal(t, condition_node, same)
                      \o << [step |-> "pop", node |-> condition_node] >>
                 ELSE <<>>)
                \o TraversalOfAll(t, remaining, same)
           ELSE TraversalOfAll(t, children(t, n), same))
       \o (IF df_is_scope_boundary(t, n)
           THEN << [step |-> "pop", node |-> n] >> ELSE <<>>)

TraversalOfAll(t, ns, same) ==
    IF ns = <<>> THEN <<>>
    ELSE Traversal(t, Head(ns), same) \o TraversalOfAll(t, Tail(ns), same)

TraverseStep(st, t, e) ==
    IF e.step = "visit" THEN TraverseVisit(st, t, e.node)
    ELSE IF e.step = "push_condition" THEN PushCondition(st, t, e.node)
    ELSE [st EXCEPT !.stack = Drop(@, 1)]

\* _traverse: the steps from the i-th on, taken in turn.
RECURSIVE _traverse(_, _, _, _)
_traverse(st, t, steps, i) ==
    IF i > Len(steps) \/ st.uuid < 0 THEN st
    ELSE _traverse(TraverseStep(st, t, steps[i]), t, steps, i + 1)

\* The pairs with no edge from a try block to a finally clause.
control_flow_pair_handlers_only(scope_type, curr_type, next_type) ==
    \/ curr_type = "try" /\ next_type = "catch"
    \/ curr_type = "catch" /\ next_type = "finally"
    \/ curr_type = "if_branch" /\ next_type = "else_branch"
    \/ /\ scope_type = "switch"
       /\ curr_type \in {"case", "default"}
       /\ next_type \in {"case", "default"}

\* The tests of lines 560, 567, 576 and 585: children curr and next_node of
\* a scope, one next to the other, get a control-flow edge. No two of the
\* tests hold together.
control_flow_pair(scope_type, curr_type, next_type) ==
    \/ curr_type = "try" /\ next_type \in {"catch", "finally"}
    \/ curr_type = "catch" /\ next_type = "finally"
    \/ curr_type = "if_branch" /\ next_type = "else_branch"
    \/ /\ scope_type = "switch"
       /\ curr_type \in {"case", "default"}
       /\ next_type \in {"case", "default"}

\* The children of a scope's node, lines 503-534: its variables, its child
\* scopes (nodes), and the usages made in it.
scope_children(scope, nodes, us) ==
    LET variable_nodes ==
            [i \in 1..Len(scope.variables) |->
               [id |-> scope.variables[i].id, type |-> "variable",
                labels |-> <<scope.variables[i].name, scope.variables[i].kind>>,
                startLine |-> scope.variables[i].start_line,
                endLine |-> scope.variables[i].end_line, children |-> <<>>]]
        scope_usages == SelectSeq(us, LAMBDA u : u.scope_id = scope.id)
        usage_nodes ==
            [i \in 1..Len(scope_usages) |->
               [id |-> scope_usages[i].id, type |-> "usage",
                labels |-> <<scope_usages[i].attribute_name, scope_usages[i].name>>,
                startLine |-> scope_usages[i].start_line,
                endLine |-> scope_usages[i].end_line, children |-> <<>>]]
    IN variable_nodes \o nodes \o usage_nodes

\* The edges from definition to usage, lines 540-550, for the usages made in
\* a scope.
data_edges(scope, us) ==
    LET with_def == SelectSeq(us, LAMBDA u : u.scope_id = scope.id /\ u.def_id # 0)
    IN [i \in 1..Len(with_def) |->
          [id |-> <<"edge", with_def[i].def_id, with_def[i].id>>,
           sources |-> <<with_def[i].def_id>>, targets |-> <<with_def[i].id>>,
           usageStartLine |-> with_def[i].start_line,
           usageEndLine |-> with_def[i].end_line]]

\* The control flow edges between the children of a scope's node, lines
\* 553-591.
control_flow_edges(scope_type, children_) ==
    LET linked(i) == control_flow_pair(scope_type, children_[i].type,
                                       children_[i + 1].type)
        pairs == SelectSeq([i \in 1..(Len(children_) - 1) |-> i], linked)
    IN [i \in 1..Len(pairs) |->
          [id |-> <<"flow", children_[pairs[i]].id, children_[pairs[i] + 1].id>>,
           sources |-> <<children_[pairs[i]].id>>,
           targets |-> <<children_[pairs[i] + 1].id>>,
           type |-> "control-flow"]]

\* _build_graph.build_scope_node: [node, edges], the edges in the order they
\* are appended to elk_edges.
RECURSIVE build_scope_node(_, _, _), build_child_scopes(_, _, _)
build_child_scopes(sc, us, ids) ==
    IF ids = <<>> THEN [nodes |-> <<>>, edges |-> <<>>]
    ELSE With(build_scope_node(sc, us, Head(ids)), LAMBDA h :
         With(build_child_scopes(sc, us, Tail(ids)), LAMBDA r :
              [nodes |-> <<h.node>> \o r.nodes, edges |-> h.edges \o r.edges]))

build_scope_node(sc, us, sid) ==
    LET scope == sc[DfScopeIndex(sc, sid)]
    IN With(build_child_scopes(sc, us, scope.children), LAMBDA sub :
       With(scope_children(scope, sub.nodes, us), LAMBDA children_ :
            [node |-> [id |-> scope.id, type |-> scope.type,
                       labels |-> scope.label,
                       startLine |-> scope.start_line, endLine |-> scope.end_line,
                       children |-> children_],
             edges |-> sub.edges \o data_edges(scope, us)
                       \o control_flow_edges(scope.type, children_)]))

\* The root is the scope with no parent.
_build_graph(sc, us) ==
    LET root == CHOOSE k \in 1..Len(sc) :
                    sc[k].parent_id = 0 /\ \A j \in 1..(k - 1) : sc[j].parent_id # 0
        g == build_scope_node(sc, us, sc[root].id)
    IN [root |-> g.node, edges |-> g.edges]

\* _build_graph when self.scopes may hold fewer scopes than are alive: table
\* has the keys of self.scopes in the order they were added, sc every Scope
\* object there is. The root is the first value of self.scopes with no
\* parent; the children are reached through the objects.
_build_graph_of(table, sc, us) ==
    LET root == CHOOSE k \in 1..Len(table) :
                    /\ sc[DfScopeIndex(sc, table[k])].parent_id = 0
                    /\ \A j \in 1..(k - 1) :
                          sc[DfScopeIndex(sc, table[j])].parent_id # 0
        g == build_scope_node(sc, us, table[root])
    IN [root |-> g.node, edges |-> g.edges]

\* analyze_file up to line 86: the analyzer's state after the traversal. uuid
\* is the number of uuid4 values drawn so far; each draw yields a value never
\* drawn before (here the next number).
Analysed(t, uuid, same) ==
    LET global_scope == [id |-> uuid + 1, type |-> "global", parent_id |-> 0,
                         start_line |-> t[root_node].line,
                         end_line |-> t[root_node].end_line,
                         label |-> <<"global">>, variables |-> <<>>,
                         children |-> <<>>]
    IN _traverse([scopes |-> <<global_scope>>, usages |-> <<>>, definitions |-> <<>>,
                  stack |-> <<global_scope.id>>, uuid |-> uuid + 1],
                 t, Traversal(t, root_node, same), 1)

\* The state after the traversal for each outcome of `is`, which only the
\* traversal of an if_statement asks for.
AnalysedByOutcome(t, uuid) ==
    LET compared == \E n \in 1..Len(t) : t[n].type = "if_statement"
    IN With(Analysed(t, uuid, "new object"), LAMBDA new :
            ("same object" :> IF compared THEN Analysed(t, uuid, "same object")
                              ELSE new)
            @@ ("new object" :> new))

\* Callers of analyze_file on one DataFlowAnalyzer.
Callers == {1, 2}

\* DataFlowAnalyzer.__init__: no call made yet. scopes has every Scope object
\* there is, table the keys of self.scopes.
NoCalls ==
    [self |-> [scopes |-> <<>>, table |-> <<>>, usages |-> <<>>,
               definitions |-> <<>>, stack |-> <<>>, uuid |-> 0],
     made |-> 0,
     frames |-> [c \in Callers |->
                   [pc |-> "idle", file |-> 0, same |-> "", i |-> 0,
                    uuid0 |-> 0, result |-> None, after_abort |-> FALSE]]]

----------------------------------------------------------------------------
(* scan_codebase (app/services/analysis.py) *)

\* files_to_scan: the files os.walk finds under the root.
ScanFiles == {"a.ts", "a.py", "a.tsx.PY"}

\* What the analyzer does with a file: analyze_file returns the metrics of
\* the file or raises an Exception.
AnalyzerOutcomes == {"returns", "raises"}

\* The exceptions a future can hold; the worker function raises none of its
\* own, they come from the pool.
FutureExceptions == {"TimeoutError", "BrokenProcessPool"}

\* scan_codebase has not been called.
NoScan == [pc |-> "idle", futures |-> <<>>, collected |-> {},
           analysis_results |-> <<>>, children |-> <<>>]

\* The value analyze_single_file returns for file_path.
analyze_single_file(path, outcome) ==
    LET analyzer_ == IF \/ endswith(PathName(path), <<".", "t", "s">>)
                        \/ endswith(PathName(path), <<".", "t", "s", "x">>)
                     THEN "TreeSitterAnalyzer" ELSE "lizard"
    IN IF outcome = "raises"
       THEN [error |-> "boom", filename |-> path]
       ELSE [filename |-> path, analyzed_by |-> analyzer_]

\* Every result is kept, error records too.
result_collection_of_all(analysis_results, future) ==
    IF future.exception # "" THEN analysis_results
    ELSE Append(analysis_results, future.result)

\* The body of the as_completed loop, lines 338-353: analysis_results after
\* the result of a future that is done has been looked at.
result_collection(analysis_results, future) ==
    IF future.exception # "" THEN analysis_results
    ELSE IF "error" \in DOMAIN future.result THEN analysis_results
    ELSE Append(analysis_results, future.result)

----------------------------------------------------------------------------
(* Actions *)

Init ==
    /\ tree = EmptyFile
    /\ open = <<>>
    /\ nitems = 0
    /\ pc = "ready"
    /\ scopes = <<>>
    /\ scope_boundary_map = EmptyDict
    /\ usages = <<>>
    /\ request = None
    /\ focus_fn_scope = None
    /\ tokens = <<>>
    /\ call_args = None
    /\ prev_tokens = None
    /\ analyzer = [scopes |-> <<>>, usages |-> <<>>, definitions |-> <<>>,
                   current_scope_stack |-> <<>>]
    /\ graph = None
    /\ prev_graph = None
    /\ uuid_issued = 0
    /\ analyses = 0
    /\ node_is = "not asked"
    /\ scan = NoScan
    /\ calls = NoCalls

\* The node that holds the statements written after statement it, the last
\* one of file t: the body it leaves open, for a switch its last clause.
Body(it, t) ==
    IF it.k = "switch"
    THEN Max({n \in 1..Len(t) : t[n].type \in {"switch_case", "switch_default"}})
    ELSE Len(t)

\* The file on disk gets one more statement. It is written before any of the
\* two analyses reads it.
Parse(it) ==
    /\ pc = "ready"
    /\ analyses = 0
    /\ it.up <= Len(open)
    /\ LET st == Drop(open, it.up)
           t2 == ParsedWith(tree, st, it)
       IN /\ tree' = t2
          /\ open' = IF it.k \in Containers THEN Append(st, Body(it, t2)) ELSE st
    /\ nitems' = nitems + 1
    /\ UNCHANGED <<pc, scopes, scope_boundary_map, usages, request,
                   focus_fn_scope, tokens, call_args, prev_tokens, analyzer,
                   graph, prev_graph, uuid_issued, analyses, node_is, scan, calls>>

\* The outcomes of `is` a call can meet, given what the call computes for
\* each (by_outcome): the one the process has met before, if any; either one
\* when the call's result depends on it; and else the result is the same.
Outcomes(by_outcome) ==
    IF by_outcome["same object"] = by_outcome["new object"] THEN {"new object"}
    ELSE IF node_is = "not asked" THEN WrapperOutcomes
    ELSE {node_is}

Asked(by_outcome, same) ==
    IF by_outcome["same object"] = by_outcome["new object"] THEN node_is ELSE same

\* compute_focus_overlay on the file at path, which exists. p1 and us are
\* what the two traversals of a TypeScript file leave: Phase1Result(tree) and
\* phase2_traverse of it. For any other file the call returns at line 443,
\* before it reads the line numbers or the content.
compute_focus_overlay(path, p1, us, slice_start_line, slice_end_line, focus_start_line, focus_end_line) ==
    /\ pc \in {"ready", "done"}
    /\ IF ~_is_supported_typescript_file(path)
       THEN /\ tokens' = <<>>
            /\ scopes' = <<>>
            /\ scope_boundary_map' = EmptyDict
            /\ usages' = <<>>
            /\ request' = None
            /\ focus_fn_scope' = None
            /\ node_is' = node_is
       ELSE LET r  == Normalised(tree, slice_start_line, slice_end_line,
                                 focus_start_line, focus_end_line)
                f  == smallest_containing_function_scope(p1.scopes, r)
            IN /\ scopes' = p1.scopes
               /\ scope_boundary_map' = p1.map
               /\ request' = r
               /\ focus_fn_scope' = f
               /\ \E same \in Outcomes(us) :
                     /\ usages' = us[same]
                     /\ tokens' = BuildTokens(p1.scopes, us[same], 1, r, f)
                     /\ node_is' = Asked(us, same)
    /\ call_args' = <<slice_start_line, slice_end_line,
                      focus_start_line, focus_end_line, path>>
    /\ prev_tokens' = IF pc = "ready" THEN None ELSE tokens
    /\ pc' = IF pc = "ready" THEN "done" ELSE "repeated"
    /\ UNCHANGED <<tree, open, nitems, analyzer, graph, prev_graph,
                   uuid_issued, analyses, scan, calls>>

\* DataFlowAnalyzer.analyze_file on the file, with the one analyzer instance.
analyze_file ==
    /\ analyses < MaxAnalyses
    /\ \E by_outcome \in {AnalysedByOutcome(tree, uuid_issued)} :
          \E same \in Outcomes(by_outcome) :
             \E st \in {by_outcome[same]} :
                /\ analyzer' = [scopes |-> st.scopes, usages |-> st.usages,
                                definitions |-> st.definitions,
                                current_scope_stack |-> st.stack]
                /\ graph' = _build_graph(st.scopes, st.usages)
                /\ uuid_issued' = st.uuid
                /\ node_is' = Asked(by_outcome, same)
    /\ prev_graph' = graph
    /\ analyses' = analyses + 1
    /\ UNCHANGED <<tree, open, nitems, pc, scopes, scope_boundary_map, usages,
                   request, focus_fn_scope, tokens, call_args, prev_tokens, scan, calls>>

\* A file is laid out either with every statement on a line of its own or
\* with all of them on one line.
Layout(nl) == nitems >= 2 => (nl <=> tree[1].end_line > 1)

Layouts == {b \in BOOLEAN : Layout(b)}

\* Statements of the files of Spec and SpecAnalyzers: nested functions and
\* blocks that declare and read one name.
Items ==
    {Item(k, "", "", "", u, nl) :
        k \in {"function", "block"}, u \in 0..Len(open), nl \in Layouts}
    \cup {Item(k, "x", "", "", u, nl) :
        k \in {"decl", "use"}, u \in 0..Len(open), nl \in Layouts}

\* Statements of the files of SpecWide: every kind of binding, two names.
WideItems ==
    {Item(k, "", p, "", u, nl) :
        k \in {"function", "arrow", "catch"}, p \in {"x"},
        u \in 0..Len(open), nl \in Layouts}
    \cup {Item("function_declaration", n, "", "", u, nl) :
        n \in {"Map"}, u \in 0..Len(open), nl \in Layouts}
    \cup {Item(k, n, "", "", u, nl) :
        k \in {"decl", "use"}, n \in Names, u \in 0..Len(open), nl \in Layouts}
    \cup {Item("import", "x", "", s, 0, nl) : s \in ImportSources, nl \in Layouts}

ParseWide(it) ==
    /\ nitems < MaxWide
    /\ Parse(it)

ParseDeep(it) ==
    /\ nitems < MaxItems
    /\ Parse(it)

\* The file of SpecScenario, statement by statement:
\*   function outer(p) { const local; function inner() { local; p; } }
Scenario(nl) ==
    << Item("function", "", "p", "", 0, nl),
       Item("decl", "local", "", "", 0, nl),
       Item("function", "", "", "", 0, nl),
       Item("use", "local", "", "", 0, nl),
       Item("use", "p", "", "", 0, nl) >>

ParseScenario(nl) ==
    /\ nitems < Len(Scenario(nl))
    /\ Layout(nl)
    /\ Parse(Scenario(nl)[nitems + 1])

LineNumbers == 0..(tree[1].end_line + 1)

Requested ==
    /\ pc = "ready"
    /\ \E p1 \in {Phase1Result(tree)} :
       \E us \in {phase2_traverse(p1.scopes, p1.map, tree)} :
       \E fs \in LineNumbers, fe \in LineNumbers :
             compute_focus_overlay(file_path, p1, us, 1, tree[1].end_line, fs, fe)

Next ==
    \/ \E it \in Items : ParseDeep(it)
    \/ Requested

Spec == Init /\ [][Next]_vars

\* Requests of SpecWide: the focus is one line of the file, or runs from a
\* line to the end of the file.
RequestedWide ==
    /\ pc = "ready"
    /\ \E p1 \in {Phase1Result(tree)} :
       \E us \in {phase2_traverse(p1.scopes, p1.map, tree)} :
       \E fs \in 1..tree[1].end_line : \E fe \in {fs, tree[1].end_line} :
             compute_focus_overlay(file_path, p1, us, 1, tree[1].end_line, fs, fe)

\* The same request once more: same path, same content, same four numbers.
Repeated ==
    /\ pc = "done"
    /\ \E p1 \in {Phase1Result(tree)} :
       \E us \in {phase2_traverse(p1.scopes, p1.map, tree)} :
       compute_focus_overlay(call_args[5], p1, us,
                                call_args[1], call_args[2],
                                call_args[3], call_args[4])

NextWide ==
    \/ \E it \in WideItems : ParseWide(it)
    \/ RequestedWide
    \/ Repeated

SpecWide == Init /\ [][NextWide]_vars

NextAnalyzers ==
    \/ \E it \in Items : ParseDeep(it)
    \/ /\ pc = "ready"
       /\ \E p1 \in {Phase1Result(tree)} :
          \E us \in {phase2_traverse(p1.scopes, p1.map, tree)} :
          compute_focus_overlay(file_path, p1, us,
                                   1, tree[1].end_line, 1, tree[1].end_line)
    \/ analyze_file

SpecAnalyzers == Init /\ [][NextAnalyzers]_vars

NextScenario ==
    \/ \E nl \in BOOLEAN : ParseScenario(nl)
    \/ Requested

SpecScenario == Init /\ [][NextScenario]_vars

----------------------------------------------------------------------------
(* Claims *)

Min(S) == CHOOSE x \in S : \A y \in S : x <= y

\* s, parent(s), ..., Global, nearest first, in a scope table whose scopes
\* carry id and parent_id; top is the parent_id of the outermost scope.
RECURSIVE ChainOf(_, _, _)
ChainOf(sc, s, top) ==
    LET k == CHOOSE i \in 1..Len(sc) : sc[i].id = s
    IN IF sc[k].parent_id = top THEN <<s>>
       ELSE <<s>> \o ChainOf(sc, sc[k].parent_id, top)

\* The places on the chain of overlay usage u whose scope holds u's name.
OverlayHolders(u) ==
    LET chain == ChainOf(scopes, u.scope, None)
    IN {i \in 1..Len(chain) :
          \E d \in ScopeById(scopes, chain[i]).vars : d.name = u.name}

\* The definitions scope s holds for name when node n is visited: those the
\* analyzer registered for s at nodes visited before n, by place in
\* analyzer.definitions. The greatest is the one the table keeps.
TableAt(s, name, n) ==
    {i \in 1..Len(analyzer.definitions) :
        /\ analyzer.definitions[i].scope_id = s
        /\ analyzer.definitions[i].name = name
        /\ analyzer.definitions[i].at < n}

\* The places on the chain of analyzer usage u whose scope holds u's name
\* when u is resolved.
AnalyzerHolders(u) ==
    LET chain == ChainOf(analyzer.scopes, u.scope_id, 0)
    IN {i \in 1..Len(chain) : TableAt(chain[i], u.name, u.at) # {}}

\* C1, overlay half: a usage resolves to the binding of its name in the nearest
\* scope of its chain that holds the name, and to nothing iff none holds it.
OverlayResolvesOnChain ==
    pc # "ready" =>
        \A j \in 1..Len(usages) :
            LET u == usages[j]
                chain == ChainOf(scopes, u.scope, None)
                H == OverlayHolders(u)
            IN IF H = {} THEN u.resolved = None
               ELSE /\ u.resolved # None
                    /\ u.resolved.name = u.name
                    /\ u.resolved.scope_id = chain[Min(H)]
                    /\ u.resolved \in ScopeById(scopes, chain[Min(H)]).vars

\* C1, analyzer half: the same for _resolve_variable, over the tables as they
\* are when the usage is visited.
AnalyzerResolvesOnChain ==
    analyses > 0 =>
        \A j \in 1..Len(analyzer.usages) :
            LET u == analyzer.usages[j]
                chain == ChainOf(analyzer.scopes, u.scope_id, 0)
                H == AnalyzerHolders(u)
            IN IF H = {} THEN u.def_id = 0
               ELSE LET i == Max(TableAt(chain[Min(H)], u.name, u.at))
                    IN u.def_id = analyzer.definitions[i].id

\* C1: scope-chain resolution. Every recorded usage of a name n in scope s
\* resolves to the binding for n held by the nearest scope on the chain
\* s, parent(s), ..., Global that holds n at the time of resolution, never to a
\* binding of a scope off the chain, and is unresolved iff no scope on the
\* chain holds n; for compute_focus_overlay and for DataFlowAnalyzer.
ScopeChainResolution ==
    OverlayResolvesOnChain /\ AnalyzerResolvesOnChain

\* C1 witness: both analyses have resolved a usage whose name is held by two
\* scopes of its chain (an inner declaration shadows an outer one).
ShadowedUsageResolved ==
    /\ pc # "ready"
    /\ analyses > 0
    /\ \E j \in 1..Len(usages) : Cardinality(OverlayHolders(usages[j])) >= 2
    /\ \E j \in 1..Len(analyzer.usages) :
          Cardinality(AnalyzerHolders(analyzer.usages[j])) >= 2

\* A usage occurrence of the overlay: node, name, line, and the declaration
\* it resolves to (name and line), <<>> when unresolved.
OverlayOccurrences ==
    {<<usages[j].node, usages[j].name, usages[j].line,
       IF usages[j].resolved = None THEN <<>>
       ELSE <<usages[j].resolved.name, usages[j].resolved.def_line>> >> :
     j \in 1..Len(usages)}

DefinitionById(id) ==
    analyzer.definitions[CHOOSE i \in 1..Len(analyzer.definitions) :
                             analyzer.definitions[i].id = id]

AnalyzerOccurrences ==
    {<<analyzer.usages[j].at, analyzer.usages[j].name, analyzer.usages[j].start_line,
       IF analyzer.usages[j].def_id = 0 THEN <<>>
       ELSE <<DefinitionById(analyzer.usages[j].def_id).name,
              DefinitionById(analyzer.usages[j].def_id).start_line>> >> :
     j \in 1..Len(analyzer.usages)}

\* C2: the two consumers see identical results. For the same file the overlay
\* and the scope graph record the same set of usage occurrences, and each
\* occurrence resolves to the same declaration (name and declaration line) in
\* both, or is unresolved in both.
ConsumersAgree ==
    (pc # "ready" /\ analyses > 0) => OverlayOccurrences = AnalyzerOccurrences

\* The ids of a graph node and of the nodes below it, in order.
RECURSIVE NodeIds(_), NodesIds(_)
NodesIds(ns) ==
    IF ns = <<>> THEN <<>> ELSE NodeIds(Head(ns)) \o NodesIds(Tail(ns))

NodeIds(node) == <<node.id>> \o NodesIds(node.children)

GraphIds(g) == <<NodeIds(g.root), [i \in 1..Len(g.edges) |-> g.edges[i].id]>>

\* C4: the scope graph has stable ids. Analysing the same unchanged file twice
\* yields graphs whose scope-cluster ids, binding-node ids, usage-node ids and
\* edge ids are identical position by position.
StableGraphIds ==
    prev_graph # None => GraphIds(graph) = GraphIds(prev_graph)

\* The binding the usage behind token k resolved to, None if it has none.
BindingOf(k) == usages[tokens[k].usage].resolved

\* C3, first half: a second call with the same path, content, slice range and
\* focus range returns the same token list.
RepeatedCallAgrees ==
    pc = "repeated" => tokens = prev_tokens

\* C3, second half: a symbolId is made of the file path, the declaration's
\* line and column and the name for an ordinary binding, and of the file path,
\* the import source and the name for an import.
SymbolIdFromDeclaration ==
    pc # "ready" =>
        \A k \in 1..Len(tokens) :
            LET d == BindingOf(k)
            IN d # None =>
                 tokens[k].symbolId =
                    IF d.kind = "import"
                    THEN <<"imp", file_path, d.import_source, d.name>>
                    ELSE <<"def", file_path, d.def_line, d.def_col, d.name>>

FocusCandidates ==
    {k \in 1..Len(scopes) :
        /\ scopes[k].type = "function"
        /\ scopes[k].start_line <= request.focus_start_line
        /\ scopes[k].end_line >= request.focus_end_line}

Span(k) == scopes[k].end_line - scopes[k].start_line

FunctionScopes == {k \in 1..Len(scopes) : scopes[k].type = "function"}

OuterFn == Min(FunctionScopes)

InnerFn == Min(FunctionScopes \ {OuterFn})

\* The request's focus range is the line span of scope k.
FocusIs(k) ==
    /\ call_args[3] = scopes[k].start_line
    /\ call_args[4] = scopes[k].end_line

\* The tokens of the usages of name inside inner.
TokensInInner(name) ==
    {k \in 1..Len(tokens) :
        /\ usages[tokens[k].usage].name = name
        /\ InSeq(ChainOf(scopes, usages[tokens[k].usage].scope, None),
                 scopes[InnerFn].id)}

ScenarioAnalysed == pc # "ready" /\ nitems = 5

DeclaredTokens ==
    {k \in 1..Len(tokens) :
        BindingOf(k) # None /\ BindingOf(k).kind \notin {"import", "param"}}

OwnedByGlobal(d) == d.scope_id = scopes[1].id

ImportClassification ==
    pc # "ready" =>
        \A k \in 1..Len(tokens) :
            (BindingOf(k) # None /\ BindingOf(k).kind = "import") =>
                LET r == _classify_import_source(BindingOf(k).import_source)
                IN tokens[k].category =
                      IF r[1] /\ r[2] # NoPath THEN "importInternal"
                      ELSE "importExternal"

\* The usage lies inside the slice range and the focus range of the request.
InRanges(u) ==
    /\ u.line >= request.slice_start_line /\ u.line <= request.slice_end_line
    /\ u.line >= request.focus_start_line /\ u.line <= request.focus_end_line

\* C10: a resolution miss is a first-class result. A usage for which no scope
\* on its chain holds the name yields a token, `builtin` if the name is in the
\* builtin registry and `unresolved` otherwise; a usage with a binding never
\* gets `builtin` or `unresolved`.
ResolutionMiss ==
    pc # "ready" =>
        /\ \A j \in 1..Len(usages) :
              (OverlayHolders(usages[j]) = {} /\ InRanges(usages[j])) =>
                 \E k \in 1..Len(tokens) :
                    /\ tokens[k].usage = j
                    /\ tokens[k].category =
                          IF usages[j].name \in _BUILTINS THEN "builtin"
                          ELSE "unresolved"
        /\ \A k \in 1..Len(tokens) :
              IF OverlayHolders(usages[tokens[k].usage]) = {}
              THEN tokens[k].category \in {"builtin", "unresolved"}
              ELSE tokens[k].category \notin {"builtin", "unresolved"}

\* C10 witness: the tokens of one call hold a builtin, an unresolved name and
\* a name with a binding.
MissesAndHits ==
    /\ pc # "ready"
    /\ \E k \in 1..Len(tokens) : tokens[k].category = "builtin"
    /\ \E k \in 1..Len(tokens) : tokens[k].category = "unresolved"
    /\ \E k \in 1..Len(tokens) : BindingOf(k) # None

----------------------------------------------------------------------------
(* Requests with a slice range of their own, on files of any kind *)

\* statements per file of SpecSliced
MaxSliced == 3

\* Statements of the files of SpecSliced: a name read and declared at the
\* top level of the file, each statement on a line of its own.
SlicedItems ==
    {Item(k, n, "", "", 0, TRUE) : k \in {"decl", "use"}, n \in Names}

ParseSliced(it) ==
    /\ nitems < MaxSliced
    /\ Parse(it)

\* Any four line numbers, from before the first line to past the last one.
RequestedSliced ==
    /\ pc = "ready"
    /\ \E p1 \in {Phase1Result(tree)} :
       \E us \in {phase2_traverse(p1.scopes, p1.map, tree)} :
       \E ss \in LineNumbers, se \in LineNumbers,
             fs \in LineNumbers, fe \in LineNumbers :
             compute_focus_overlay(file_path, p1, us, ss, se, fs, fe)

\* A request for a file of another kind. The content of such a file is not
\* read; the one on disk stands for any.
RequestedUnsupported ==
    /\ pc = "ready"
    /\ \E p1 \in {Phase1Result(tree)} :
       \E us \in {phase2_traverse(p1.scopes, p1.map, tree)} :
       \E path \in Paths \ {file_path} :
          \E ss \in LineNumbers, fs \in LineNumbers :
             \E se \in {ss, tree[1].end_line}, fe \in {0, fs} :
                compute_focus_overlay(path, p1, us, ss, se, fs, fe)

NextSliced ==
    \/ \E it \in SlicedItems : ParseSliced(it)
    \/ RequestedSliced
    \/ RequestedUnsupported

SpecSliced == Init /\ [][NextSliced]_vars

\* The line numbers of the request as passed, each brought into 1..last line.
Clamped(v) == min(max(1, v), tree[1].end_line)

\* The usages, by position in `usages`, whose line lies in the clamped slice
\* range and in the clamped focus range of the request as passed.
KeptUsages ==
    SelectSeq([j \in 1..Len(usages) |-> j],
              LAMBDA j : /\ usages[j].line >= Clamped(call_args[1])
                         /\ usages[j].line <= Clamped(max(max(1, call_args[1]), call_args[2]))
                         /\ usages[j].line >= Clamped(call_args[3])
                         /\ usages[j].line <= Clamped(max(max(1, call_args[3]), call_args[4])))

\* C11: the token filter. The returned tokens are, in the order of `usages`,
\* one token for each usage whose line lies within both the clamped slice
\* range and the clamped focus range, at that usage's line and columns, and
\* there is no other token.
TokenFilter ==
    (pc # "ready" /\ call_args[5] = file_path) =>
        /\ Len(tokens) = Len(KeptUsages)
        /\ \A k \in 1..Len(tokens) :
              /\ tokens[k].usage = KeptUsages[k]
              /\ tokens[k].fileLine = usages[KeptUsages[k]].line
              /\ tokens[k].startCol = usages[KeptUsages[k]].start_col
              /\ tokens[k].endCol = usages[KeptUsages[k]].end_col

\* C11 witness: of three usages on three lines the slice range leaves out the
\* first, the focus range the last, and the one between yields the only token.
FilteredByBothRanges ==
    /\ pc # "ready" /\ call_args[5] = file_path
    /\ Len(usages) = 3 /\ Len(tokens) = 1
    /\ tokens[1].usage = 2
    /\ usages[1].line < request.slice_start_line
    /\ usages[1].line >= request.focus_start_line
    /\ usages[3].line > request.focus_end_line
    /\ usages[3].line <= request.slice_end_line

\* The characters of the four suffixes the overlay has scope rules for.
TypeScriptSuffixes ==
    { <<".", "t", "s">>, <<".", "t", "s", "x">>,
      <<".", "m", "t", "s">>, <<".", "c", "t", "s">> }

\* C12: unsupported input. A call for a file whose suffix is none of .ts,
\* .tsx, .mts, .cts returns, and returns an empty token list, whatever the
\* four line numbers are.
UnsupportedInput ==
    (pc # "ready" /\ suffix(PathName(call_args[5])) \notin TypeScriptSuffixes) =>
        tokens = <<>>

\* C12 witness: a call for such a file has returned, for a file whose
\* content read as TypeScript has identifiers, with line numbers outside the
\* file.
UnsupportedFileRequested ==
    /\ pc = "done"
    /\ call_args[5] = ".ts"
    /\ \E n \in 1..Len(tree) : tree[n].type = "identifier"
    /\ call_args[1] = 0 /\ call_args[3] > tree[1].end_line
    /\ tokens = <<>>

\* The bindings phase 1 registered, of every scope.
RegisteredBindings == UNION {scopes[k].vars : k \in 1..Len(scopes)}

\* C13: declaration targets are not usages. Phase 2 records no usage at the
\* position of a binding phase 1 registered, so no token lies on a
\* declaration target. (A node's column is its place in the file.)
DeclarationTargetsNotUsages ==
    pc # "ready" =>
        \A d \in RegisteredBindings :
            /\ \A j \in 1..Len(usages) :
                  ~(usages[j].line = d.def_line /\ usages[j].start_col = d.def_col)
            /\ \A k \in 1..Len(tokens) :
                  ~(tokens[k].fileLine = d.def_line /\ tokens[k].startCol = d.def_col)

----------------------------------------------------------------------------
(* Files with destructuring patterns *)

\* statements per file of SpecPatterns
MaxPatterns == 2

\* Statements of the files of SpecPatterns: a declarator or a parameter that
\* destructures, binding x; a parameter with a default value; reads of names.
PatternItems ==
    {Item(k, "x", f, "y", u, nl) :
        k \in {"pattern", "function_pattern"}, f \in PatternForms,
        u \in 0..Len(open), nl \in Layouts}
    \cup {Item("function_default", "x", "", "y", u, nl) :
        u \in 0..Len(open), nl \in Layouts}
    \cup {Item("use", n, "", "", u, nl) :
        n \in {"x", "y"}, u \in 0..Len(open), nl \in Layouts}

ParsePatterns(it) ==
    /\ nitems < MaxPatterns
    /\ Parse(it)

\* A request for the whole file.
RequestedWhole ==
    /\ pc = "ready"
    /\ \E p1 \in {Phase1Result(tree)} :
       \E us \in {phase2_traverse(p1.scopes, p1.map, tree)} :
       compute_focus_overlay(file_path, p1, us,
                                1, tree[1].end_line, 1, tree[1].end_line)

NextPatterns ==
    \/ \E it \in PatternItems : ParsePatterns(it)
    \/ RequestedWhole

SpecPatterns == Init /\ [][NextPatterns]_vars

\* Node n is the default value of a pattern element or of a parameter, or
\* lies inside one.
RECURSIVE InDefaultValue(_, _)
InDefaultValue(t, n) ==
    IF n = 0 \/ t[n].parent = 0 THEN FALSE
    ELSE \/ /\ t[n].field = "right"
            /\ t[t[n].parent].type \in {"object_assignment_pattern", "assignment_pattern"}
         \/ /\ t[n].field = "value"
            /\ t[t[n].parent].type \in {"required_parameter", "optional_parameter"}
         \/ InDefaultValue(t, t[n].parent)

\* Node n is in a binding position of the pattern of a declarator or of a
\* parameter: under the declarator's name or the parameter's pattern, and
\* neither a property name nor part of a default value.
RECURSIVE InBindingPosition(_, _)
InBindingPosition(t, n) ==
    LET p == t[n].parent
    IN IF p = 0 THEN FALSE
       ELSE IF t[p].type = "variable_declarator" THEN t[n].field = "name"
       ELSE IF t[p].type \in {"required_parameter", "optional_parameter"}
            THEN t[n].field = "pattern"
       ELSE IF t[n].field \in {"key", "right"} THEN FALSE
       ELSE IF t[p].type \in {"object_pattern", "array_pattern", "pair_pattern",
                              "rest_pattern", "object_assignment_pattern",
                              "assignment_pattern"}
            THEN InBindingPosition(t, p)
       ELSE FALSE

\* C14: destructuring registration. Every identifier in a binding position of
\* a destructuring pattern has a binding registered for its name, and no
\* registered binding is the property-name side of a renamed pattern or an
\* identifier of a default-value expression.
DestructuringRegistration ==
    pc # "ready" =>
        /\ \A n \in 1..Len(tree) :
              (/\ tree[n].type \in {"identifier", "shorthand_property_identifier_pattern"}
               /\ InBindingPosition(tree, n))
              => \E d \in RegisteredBindings : d.name = tree[n].text
        /\ \A d \in RegisteredBindings :
              /\ tree[d.def_col].type # "property_identifier"
              /\ ~InDefaultValue(tree, d.def_col)

----------------------------------------------------------------------------
(* Files with literal keywords *)

\* statements per file of SpecLiterals
MaxLiterals == 2

LiteralKeywords == {"true", "false", "null", "undefined"}

\* Statements of the files of SpecLiterals: a literal keyword, a name read
\* or declared, a function.
LiteralItems ==
    {Item("literal", w, "", "", u, nl) :
        w \in LiteralKeywords, u \in 0..Len(open), nl \in Layouts}
    \cup {Item(k, "x", "", "", u, nl) :
        k \in {"decl", "use"}, u \in 0..Len(open), nl \in Layouts}
    \cup {Item("function", "", "", "", u, nl) : u \in 0..Len(open), nl \in Layouts}

ParseLiterals(it) ==
    /\ nitems < MaxLiterals
    /\ Parse(it)

NextLiterals ==
    \/ \E it \in LiteralItems : ParseLiterals(it)
    \/ RequestedWhole

SpecLiterals == Init /\ [][NextLiterals]_vars

\* C15: literal keywords are not usages. No occurrence of true, false, null
\* or undefined is recorded as a usage, and no token of any category lies on
\* one.
LiteralsNotUsages ==
    pc # "ready" =>
        /\ \A j \in 1..Len(usages) : tree[usages[j].node].type \notin LiteralKeywords
        /\ \A k \in 1..Len(tokens) :
              \A n \in 1..Len(tree) :
                 (tree[n].line = tokens[k].fileLine /\ tree[n].col = tokens[k].startCol)
                 => tree[n].type \notin LiteralKeywords

----------------------------------------------------------------------------
(* Files with named declarations *)

\* statements per file of SpecDeclarations
MaxDeclarations == 3

\* Statements of the files of SpecDeclarations: a function, a generator
\* function or a class declared with the name f, a function expression, and
\* a read of f.
DeclarationItems ==
    {Item(k, "f", "", "", u, nl) :
        k \in {"function_declaration", "generator_declaration", "class_declaration",
               "use"},
        u \in 0..Len(open), nl \in Layouts}
    \cup {Item("function", "", "", "", u, nl) : u \in 0..Len(open), nl \in Layouts}

ParseDeclarations(it) ==
    /\ nitems < MaxDeclarations
    /\ Parse(it)

NextDeclarations ==
    \/ \E it \in DeclarationItems : ParseDeclarations(it)
    \/ RequestedWhole

SpecDeclarations == Init /\ [][NextDeclarations]_vars

NamedDeclarations ==
    {n \in 1..Len(tree) :
        /\ tree[n].type \in {"function_declaration", "generator_function_declaration",
                              "class_declaration"}
        /\ child_by_field_name(tree, n, "name") # 0}

\* The scope that encloses node n: the one its parent lies in.
EnclosingScope(n) ==
    ScopeById(scopes, ScopeBelow(tree, scope_boundary_map, tree[n].parent, scopes[1].id))

\* C16: function and class names live in the enclosing scope. The name of a
\* function, generator function or class declaration is registered in the
\* scope that encloses the declaration and not in the scope the declaration
\* opens, and a read of the name anywhere inside that enclosing scope,
\* before or after the declaration, gets a token of category module or
\* local.
NamesInEnclosingScope ==
    pc # "ready" =>
        \A n \in NamedDeclarations :
            LET name_node == child_by_field_name(tree, n, "name")
            IN /\ \E d \in EnclosingScope(n).vars : d.name = tree[name_node].text
               /\ n \in DOMAIN scope_boundary_map =>
                     \A d \in ScopeById(scopes, scope_boundary_map[n]).vars :
                        d.def_col # name_node
               /\ \A k \in 1..Len(tokens) :
                     LET u == usages[tokens[k].usage]
                     IN (/\ u.name = tree[name_node].text
                         /\ u.node # name_node
                         /\ InSeq(_ancestor_chain(scopes, u.scope), EnclosingScope(n).id))
                        => tokens[k].category \in {"module", "local"}

----------------------------------------------------------------------------
(* The scope graph *)

\* The nodes of a graph node's subtree, itself included.
RECURSIVE NodesOf(_), NodesUnder(_)
NodesUnder(ns) ==
    IF ns = <<>> THEN {} ELSE NodesOf(Head(ns)) \cup NodesUnder(Tail(ns))

NodesOf(node) == {node} \cup NodesUnder(node.children)

GraphNodes == IF graph = None THEN {} ELSE NodesOf(graph.root)

\* C17: no redundant body scope. In the graph analyze_file returns, a scope
\* of type function or catch has no child scope of type block: its body
\* opens no scope of its own.
NoBodyScope ==
    \A node \in GraphNodes :
        node.type \in {"function", "catch"} =>
            \A i \in 1..Len(node.children) : node.children[i].type # "block"

----------------------------------------------------------------------------
(* Files with control flow *)

\* statements per file of SpecControlFlow
MaxFlow == 2

\* Statements of the files of SpecControlFlow: if statements, with and
\* without else, try statements, switch statements, and a name declared and
\* read.
FlowItems ==
    {Item(k, "x", "x", "", u, nl) :
        k \in {"if", "if_bare", "if_else", "if_else_if", "if_callback", "catch",
               "try_finally", "try_catch_finally", "decl", "use"},
        u \in 0..Len(open), nl \in Layouts}
    \cup {Item("switch", "x", "", sh, u, nl) :
        sh \in SwitchShapes, u \in 0..Len(open), nl \in Layouts}

ParseFlow(it) ==
    /\ nitems < MaxFlow
    /\ Parse(it)

NextControlFlow ==
    \/ \E it \in FlowItems : ParseFlow(it)
    \/ analyze_file

SpecControlFlow == Init /\ [][NextControlFlow]_vars

\* The scopes of graph g that carry label l.
Labelled(g, l) == {node \in NodesOf(g.root) : node.labels = <<l>>}

\* The children of a graph node that carry label l.
ChildrenLabelled(node, l) ==
    {i \in 1..Len(node.children) : node.children[i].labels = <<l>>}

\* The if statements of file t whose field f holds a block, directly or, for
\* the alternative, inside its else clause.
IfStatements(t) == {n \in 1..Len(t) : t[n].type = "if_statement"}

WithThenBlock(t) ==
    {n \in IfStatements(t) :
        /\ child_by_field_name(t, n, "consequence") # 0
        /\ t[child_by_field_name(t, n, "consequence")].type = "statement_block"}

WithElseBlock(t) ==
    {n \in IfStatements(t) :
        \E c \in 1..Len(t), b \in 1..Len(t) :
            /\ t[c].type = "else_clause" /\ t[c].parent = n
            /\ t[b].type = "statement_block" /\ t[b].parent = c}

\* The graph g of file t has one scope labelled "if" for each if statement,
\* of type if, and the conditions, then-blocks and else-blocks of the if
\* statements are children of these scopes, labelled condition, then and
\* else, one each.
OneIfScopeEach(t, g) ==
    /\ Cardinality(Labelled(g, "if")) = Cardinality(IfStatements(t))
    /\ Cardinality(Labelled(g, "condition")) = Cardinality(IfStatements(t))
    /\ Cardinality(Labelled(g, "then")) = Cardinality(WithThenBlock(t))
    /\ Cardinality(Labelled(g, "else")) = Cardinality(WithElseBlock(t))
    /\ \A node \in NodesOf(g.root) :
          /\ node.type = "if" <=> node.labels = <<"if">>
          /\ node.type = "if" =>
                /\ Cardinality(ChildrenLabelled(node, "condition")) = 1
                /\ Cardinality(ChildrenLabelled(node, "then")) <= 1
                /\ Cardinality(ChildrenLabelled(node, "else")) <= 1
          /\ node.type # "if" =>
                \A l \in {"condition", "then", "else"} :
                    ChildrenLabelled(node, l) = {}

\* C18: single if label. Every call of analyze_file returns a graph with
\* exactly one scope of type if labelled "if" for each if statement of the
\* file, whose condition, then-block and else-block are child scopes of it
\* labelled "condition", "then" and "else"; none of them is labelled "if".
SingleIfLabel ==
    [][analyses' = analyses + 1 => OneIfScopeEach(tree, graph')]_vars

\* The control-flow edges of the graph, as <<source, target>>, in the order
\* of graph.edges.
FlowEdges ==
    IF graph = None THEN <<>>
    ELSE LET flow == SelectSeq(graph.edges, LAMBDA e : "type" \in DOMAIN e)
         IN [i \in 1..Len(flow) |-> <<flow[i].sources[1], flow[i].targets[1]>>]

\* The child scopes of a graph node, in document order.
ChildScopes(node) ==
    SelectSeq(node.children, LAMBDA c : c.type \notin {"variable", "usage"})

\* The pairs the specification lists, by the types of the sibling scopes.
ListedPair(parent, earlier, later) ==
    \/ earlier.type = "try" /\ later.type = "catch"
    \/ earlier.type = "catch" /\ later.type = "finally"
    \/ earlier.type = "if_branch" /\ later.type = "else_branch"
    \/ /\ parent.type = "switch"
       /\ earlier.type \in {"case", "default"}
       /\ later.type \in {"case", "default"}

\* A try block directly followed by its finally clause: no catch clause.
TryFinally(earlier, later) == earlier.type = "try" /\ later.type = "finally"

\* <<earlier id, later id>> of the consecutive sibling scopes that satisfy P.
ConsecutiveSiblings(P(_, _, _)) ==
    UNION {{<<ChildScopes(node)[i].id, ChildScopes(node)[i + 1].id>> :
               i \in {i \in 1..(Len(ChildScopes(node)) - 1) :
                        P(node, ChildScopes(node)[i], ChildScopes(node)[i + 1])}} :
           node \in GraphNodes}

\* The control-flow edges are one edge for each pair of set pairs, from the
\* earlier to the later sibling; no variable or usage node is an endpoint.
FlowEdgesAre(pairs) ==
    /\ {FlowEdges[i] : i \in 1..Len(FlowEdges)} = pairs
    /\ Len(FlowEdges) = Cardinality(pairs)
    /\ \A i \in 1..Len(FlowEdges) : \A node \in GraphNodes :
          node.id \in {FlowEdges[i][1], FlowEdges[i][2]}
              => node.type \notin {"variable", "usage"}

\* C19 as stated: the graph has a control-flow edge exactly between the
\* consecutive sibling scopes Try -> Catch, Catch -> Finally, then -> else and
\* Case/Default -> Case/Default under one Switch, from the earlier to the
\* later; none ends at a binding or a usage.
ControlFlowEdgesAsListed == FlowEdgesAre(ConsecutiveSiblings(ListedPair))

\* C19, amended: the pairs are those listed and Try -> Finally, for a try
\* statement with no catch clause. A switch of k clauses carries k-1 edges.
ControlFlowEdges ==
    FlowEdgesAre(ConsecutiveSiblings(
        LAMBDA parent, earlier, later :
            ListedPair(parent, earlier, later) \/ TryFinally(earlier, later)))

\* A graph with the two edges of a switch of three clauses and the edge of a
\* try statement that has no catch clause.
SwitchOfThreeLinked ==
    /\ \E node \in GraphNodes :
          node.type = "switch" /\ Len(ChildScopes(node)) = 3
    /\ ConsecutiveSiblings(LAMBDA parent, earlier, later :
                               TryFinally(earlier, later)) # {}
    /\ Len(FlowEdges) = 3

----------------------------------------------------------------------------
(* Data edges *)

\* The data edges of the graph, as <<source, target>>, in the order of
\* graph.edges.
DataEdges ==
    IF graph = None THEN <<>>
    ELSE LET data == SelectSeq(graph.edges, LAMBDA e : "type" \notin DOMAIN e)
         IN [i \in 1..Len(data) |-> <<data[i].sources[1], data[i].targets[1]>>]

\* The ids of the graph's nodes of type ty.
GraphNodeIds(ty) == {node.id : node \in {node \in GraphNodes : node.type = ty}}

\* C20: data edges of the scope graph. In the graph analyze_file returns,
\* every usage node that resolved to a binding has exactly one data edge,
\* from the node of that binding to the usage node; an unresolved usage has
\* none; and both ends of every edge are ids of nodes of the graph.
DataEdgesJoinNodes ==
    graph # None =>
        /\ \A k \in 1..Len(analyzer.usages) :
              LET u == analyzer.usages[k]
                  into == {i \in 1..Len(DataEdges) : DataEdges[i][2] = u.id}
              IN /\ u.id \in GraphNodeIds("usage")
                 /\ u.def_id = 0 => into = {}
                 /\ u.def_id # 0 =>
                       /\ Cardinality(into) = 1
                       /\ \A i \in into : DataEdges[i][1] = u.def_id
                       /\ u.def_id \in GraphNodeIds("variable")
        /\ \A i \in 1..Len(DataEdges) :
              /\ DataEdges[i][1] \in {node.id : node \in GraphNodes}
              /\ DataEdges[i][2] \in {node.id : node \in GraphNodes}

----------------------------------------------------------------------------
(* Files with markup *)

\* statements per file of SpecMarkup
MaxMarkup == 2

\* Statements of the files of SpecMarkup: elements, with a closing tag and
\* self-closing, whose tag, attribute and attribute value are all named x,
\* beside a declaration and a read of x and a function.
MarkupItems ==
    {Item(k, "x", "x", "x", u, nl) :
        k \in {"jsx_element", "jsx_self_closing"}, u \in 0..Len(open), nl \in Layouts}
    \cup {Item(k, "x", "", "", u, nl) :
        k \in {"decl", "use", "function"}, u \in 0..Len(open), nl \in Layouts}

ParseMarkup(it) ==
    /\ nitems < MaxMarkup
    /\ Parse(it)

NextMarkup ==
    \/ \E it \in MarkupItems : ParseMarkup(it)
    \/ RequestedWhole
    \/ analyze_file

SpecMarkup == Init /\ [][NextMarkup]_vars

\* Node n of the file is the tag name of an element (opening, closing or
\* self-closing) or the name of an attribute.
MarkupName(n) ==
    \/ /\ tree[tree[n].parent].type \in {"jsx_opening_element", "jsx_closing_element",
                                         "jsx_self_closing_element"}
       /\ tree[n].field = "name"
    \/ /\ tree[tree[n].parent].type = "jsx_attribute"
       /\ tree[n].type = "property_identifier"

\* Node n is an identifier inside the value expression of an attribute.
InAttributeValue(n) ==
    /\ tree[n].type = "identifier"
    /\ \E e \in 1..Len(tree) :
          /\ tree[e].type = "jsx_expression"
          /\ tree[tree[e].parent].type = "jsx_attribute"
          /\ IsAncestor(tree, e, n)

\* The usage nodes of the scope graph.
GraphUsageIds == {node.id : node \in {node \in GraphNodes : node.type = "usage"}}

----------------------------------------------------------------------------
(* The scan of a codebase *)

\* scan_codebase up to line 333: every file is submitted to the pool.
scan_codebase ==
    /\ scan.pc = "idle"
    /\ scan' = [scan EXCEPT !.pc = "collecting",
                            !.futures = [f \in ScanFiles |->
                                           [state |-> "pending", result |-> None,
                                            exception |-> "", ran |-> ""]]]
    /\ UNCHANGED <<tree, open, nitems, pc, scopes, scope_boundary_map, usages,
                   request, focus_fn_scope, tokens, call_args, prev_tokens,
                   analyzer, graph, prev_graph, uuid_issued, analyses, node_is,
                   calls>>

\* A worker runs analyze_single_file on a file and the future gets the value.
WorkerReturns(f, outcome) ==
    /\ scan.pc = "collecting"
    /\ scan.futures[f].state = "pending"
    /\ scan' = [scan EXCEPT !.futures[f] =
                    [state |-> "finished",
                     result |-> analyze_single_file(f, outcome),
                     exception |-> "", ran |-> outcome]]
    /\ UNCHANGED <<tree, open, nitems, pc, scopes, scope_boundary_map, usages,
                   request, focus_fn_scope, tokens, call_args, prev_tokens,
                   analyzer, graph, prev_graph, uuid_issued, analyses, node_is,
                   calls>>

\* The pool fails for a file: its future holds an exception.
WorkerFails(f, exc) ==
    /\ scan.pc = "collecting"
    /\ scan.futures[f].state = "pending"
    /\ scan' = [scan EXCEPT !.futures[f] =
                    [state |-> "finished", result |-> None,
                     exception |-> exc, ran |-> ""]]
    /\ UNCHANGED <<tree, open, nitems, pc, scopes, scope_boundary_map, usages,
                   request, focus_fn_scope, tokens, call_args, prev_tokens,
                   analyzer, graph, prev_graph, uuid_issued, analyses, node_is,
                   calls>>

\* as_completed yields a future that is done, in the order they get done or
\* any other, and the loop body looks at its result.
Collected(f) ==
    /\ scan.pc = "collecting"
    /\ scan.futures[f].state = "finished"
    /\ f \notin scan.collected
    /\ scan' = [scan EXCEPT !.collected = @ \cup {f},
                            !.analysis_results =
                                result_collection(@, scan.futures[f])]
    /\ UNCHANGED <<tree, open, nitems, pc, scopes, scope_boundary_map, usages,
                   request, focus_fn_scope, tokens, call_args, prev_tokens,
                   analyzer, graph, prev_graph, uuid_issued, analyses, node_is,
                   calls>>

\* scan_codebase from line 355: a file node for each of analysis_results.
TreeBuilt ==
    /\ scan.pc = "collecting"
    /\ scan.collected = ScanFiles
    /\ scan' = [scan EXCEPT !.pc = "done",
                            !.children =
                                [i \in 1..Len(scan.analysis_results) |->
                                   [type |-> "file",
                                    path |-> scan.analysis_results[i].filename]]]
    /\ UNCHANGED <<tree, open, nitems, pc, scopes, scope_boundary_map, usages,
                   request, focus_fn_scope, tokens, call_args, prev_tokens,
                   analyzer, graph, prev_graph, uuid_issued, analyses, node_is,
                   calls>>

NextScan ==
    \/ scan_codebase
    \/ \E f \in ScanFiles, outcome \in AnalyzerOutcomes : WorkerReturns(f, outcome)
    \/ \E f \in ScanFiles, exc \in FutureExceptions : WorkerFails(f, exc)
    \/ \E f \in ScanFiles : Collected(f)
    \/ TreeBuilt

SpecScan == Init /\ [][NextScan]_vars

\* The analysis of file f succeeded: the analyzer returned and the future
\* holds what it returned.
Succeeded(f) ==
    scan.futures[f].exception = "" /\ scan.futures[f].ran = "returns"

\* C22: per-file error isolation in a scan. When the analyzer raises, the
\* future of the file holds no exception but an error record that names the
\* file; and the tree of a finished scan has one file node for each file
\* whose analysis succeeded and none for a file whose analysis gave an error
\* record, timed out or raised, in whatever order the results came in.
ScanIsolation ==
    /\ \A f \in DOMAIN scan.futures :
          scan.futures[f].ran = "raises" =>
              /\ scan.futures[f].exception = ""
              /\ "error" \in DOMAIN scan.futures[f].result
              /\ scan.futures[f].result.filename = f
    /\ scan.pc = "done" =>
          \A f \in ScanFiles :
              Cardinality({i \in 1..Len(scan.children) : scan.children[i].path = f})
                  = IF Succeeded(f) THEN 1 ELSE 0

\* A finished scan in which one analysis succeeded, one gave an error record
\* and one future raised.
ScanWithEveryOutcome ==
    /\ scan.pc = "done"
    /\ \E f \in ScanFiles : Succeeded(f)
    /\ \E f \in ScanFiles : scan.futures[f].ran = "raises"
    /\ \E f \in ScanFiles : scan.futures[f].exception # ""

----------------------------------------------------------------------------
(* analyze_file step by step, on one DataFlowAnalyzer *)

MaxCalls == 2

\* The file made of the statements items.
RECURSIVE ParsedFile(_, _, _)
ParsedFile(t, open_, items) ==
    IF items = <<>> THEN t
    ELSE LET it == Head(items)
             st == Drop(open_, it.up)
             t2 == ParsedWith(t, st, it)
         IN ParsedFile(t2,
                       IF it.k \in Containers THEN Append(st, Body(it, t2)) ELSE st,
                       Tail(items))

\* The files the callers hand to analyze_file:
\*   function f(x) { x; }     x;     let x; x;     if (x) { x; }
CallFiles ==
    << ParsedFile(EmptyFile, <<>>,
                  << Item("function_declaration", "f", "x", "", 0, FALSE),
                     Item("use", "x", "", "", 0, FALSE) >>),
       ParsedFile(EmptyFile, <<>>, << Item("use", "x", "", "", 0, FALSE) >>),
       ParsedFile(EmptyFile, <<>>,
                  << Item("decl", "x", "", "", 0, FALSE),
                     Item("use", "x", "", "", 0, TRUE) >>),
       ParsedFile(EmptyFile, <<>>,
                  << Item("if", "x", "x", "", 0, FALSE),
                     Item("use", "x", "", "", 0, TRUE) >>) >>

\* The steps of the call in frame fr.
CallSteps(fr) == Traversal(CallFiles[fr.file], root_node, fr.same)

\* The reset that leaves the scope stack as it is.
reset_but_stack(self) ==
    [self EXCEPT !.table = <<>>, !.usages = <<>>, !.definitions = <<>>]

\* analyze_file lines 69-73: the four attributes get new, empty containers.
reset(self) ==
    [self EXCEPT !.table = <<>>, !.usages = <<>>, !.definitions = <<>>,
                 !.stack = <<>>]

\* analyze_file lines 75-84: the global scope of the file.
WithGlobalScope(self, t) ==
    LET global_scope == [id |-> self.uuid + 1, type |-> "global", parent_id |-> 0,
                         start_line |-> t[root_node].line,
                         end_line |-> t[root_node].end_line,
                         label |-> <<"global">>, variables |-> <<>>,
                         children |-> <<>>]
    IN [self EXCEPT !.scopes = Append(@, global_scope),
                    !.table = Append(@, global_scope.id),
                    !.stack = Append(@, global_scope.id),
                    !.uuid = @ + 1]

\* A step reads the scope stack when it creates a scope, adds a definition
\* or a usage, or pops.
ReadsStack(t, e) ==
    LET probe == WithGlobalScope(NoCalls.self, t)
    IN e.step # "visit" \/ TraverseVisit(probe, t, e.node) # probe

\* self after a step: the scopes it created are stored in self.scopes too.
Stepped(self, t, e) ==
    LET st == TraverseStep(self, t, e)
    IN [st EXCEPT !.table =
            @ \o [k \in 1..(Len(st.scopes) - Len(self.scopes)) |->
                    st.scopes[Len(self.scopes) + k].id]]

\* Which answer `is` gives in a call: it is asked only for an if_statement,
\* and gives one answer throughout a process.
CallOutcomes(t) ==
    IF \A n \in 1..Len(t) : t[n].type # "if_statement" THEN {"new object"}
    ELSE IF node_is = "not asked" THEN WrapperOutcomes
    ELSE {node_is}

\* A caller enters analyze_file: lines 61-86 up to the call of _traverse.
\* The callers are numbered in the order of their first calls.
Begin(c, f) ==
    /\ calls.made < MaxCalls
    /\ calls.frames[c].pc # "traversing"
    /\ \A d \in Callers : d < c => calls.frames[d].pc # "idle"
    /\ \E same \in CallOutcomes(CallFiles[f]) :
          /\ calls' = [calls EXCEPT
                !.self = WithGlobalScope(reset(@), CallFiles[f]),
                !.made = @ + 1,
                !.frames[c] = [pc |-> "traversing", file |-> f, same |-> same,
                               i |-> 1, uuid0 |-> calls.self.uuid,
                               result |-> None,
                               after_abort |->
                                   \E d \in Callers :
                                       calls.frames[d].pc = "aborted"]]
          /\ node_is' = IF \A n \in 1..Len(CallFiles[f]) :
                              CallFiles[f][n].type # "if_statement"
                        THEN node_is ELSE same
    /\ UNCHANGED <<tree, open, nitems, pc, scopes, scope_boundary_map, usages,
                   request, focus_fn_scope, tokens, call_args, prev_tokens,
                   analyzer, graph, prev_graph, uuid_issued, analyses, scan>>

\* The call of caller c takes its next step of _traverse; a step that reads
\* an empty scope stack raises IndexError, which ends the call.
Step(c) ==
    LET fr == calls.frames[c]
        t  == CallFiles[fr.file]
    IN /\ fr.pc = "traversing"
       /\ fr.i <= Len(CallSteps(fr))
       /\ \E e \in {CallSteps(fr)[fr.i]} :
             IF calls.self.stack = <<>> /\ ReadsStack(t, e)
             THEN calls' = [calls EXCEPT !.frames[c].pc = "raised",
                                         !.frames[c].result = "IndexError"]
             ELSE calls' = [calls EXCEPT !.self = Stepped(@, t, e),
                                         !.frames[c].i = @ + 1]
       /\ UNCHANGED <<tree, open, nitems, pc, scopes, scope_boundary_map, usages,
                      request, focus_fn_scope, tokens, call_args, prev_tokens,
                      analyzer, graph, prev_graph, uuid_issued, analyses,
                      node_is, scan>>

\* The traversal of caller c is over: line 88, the graph is built and
\* returned.
Return(c) ==
    LET fr == calls.frames[c]
    IN /\ fr.pc = "traversing"
       /\ fr.i > Len(CallSteps(fr))
       /\ calls' = [calls EXCEPT
             !.frames[c].pc = "returned",
             !.frames[c].result =
                 _build_graph_of(calls.self.table, calls.self.scopes,
                                 calls.self.usages)]
       /\ UNCHANGED <<tree, open, nitems, pc, scopes, scope_boundary_map, usages,
                      request, focus_fn_scope, tokens, call_args, prev_tokens,
                      analyzer, graph, prev_graph, uuid_issued, analyses,
                      node_is, scan>>

\* An exception ends the call of caller c in the middle of its traversal
\* (RecursionError, MemoryError, KeyboardInterrupt): the analyzer is left as
\* the steps taken so far made it.
Abort(c) ==
    LET fr == calls.frames[c]
    IN /\ fr.pc = "traversing"
       /\ fr.i > 1
       /\ fr.i <= Len(CallSteps(fr))
       /\ calls' = [calls EXCEPT !.frames[c].pc = "aborted"]
       /\ UNCHANGED <<tree, open, nitems, pc, scopes, scope_boundary_map, usages,
                      request, focus_fn_scope, tokens, call_args, prev_tokens,
                      analyzer, graph, prev_graph, uuid_issued, analyses,
                      node_is, scan>>

\* Some call is in flight.
InFlight == {c \in Callers : calls.frames[c].pc = "traversing"}

\* Calls one after the other, some of them aborted.
NextSequence ==
    \/ \E c \in Callers, f \in 1..Len(CallFiles) : InFlight = {} /\ Begin(c, f)
    \/ \E c \in Callers : Step(c)
    \/ \E c \in Callers : Return(c)
    \/ \E c \in Callers : Abort(c)

SpecSequence == Init /\ [][NextSequence]_vars

\* A call by each caller, for different files when both are in flight; their
\* steps interleave.
NextParallel ==
    \/ \E c \in Callers, f \in 1..Len(CallFiles) :
          /\ calls.frames[c].pc = "idle"
          /\ \A d \in InFlight : calls.frames[d].file # f
          /\ Begin(c, f)
    \/ \E c \in Callers : Step(c)
    \/ \E c \in Callers : Return(c)

SpecParallel == Init /\ [][NextParallel]_vars

\* A graph without its ids: the tree of its nodes and the number of edges.
RECURSIVE NodeShape(_)
NodeShape(n) ==
    [type |-> n.type, labels |-> n.labels, startLine |-> n.startLine,
     endLine |-> n.endLine,
     children |-> [k \in 1..Len(n.children) |-> NodeShape(n.children[k])]]

GraphShape(g) == [root |-> NodeShape(g.root), edges |-> Len(g.edges)]

\* The graph of file f when it is analysed alone.
Alone(f, same) ==
    LET st == Analysed(CallFiles[f], 0, same)
    IN GraphShape(_build_graph(st.scopes, st.usages))

\* The ids of the nodes of a graph and of the ends of its edges.
RECURSIVE IdsUnder(_)
IdsUnder(n) ==
    {n.id} \cup UNION {IdsUnder(n.children[k]) : k \in 1..Len(n.children)}

IdsOf(g) ==
    IdsUnder(g.root)
    \cup UNION {{g.edges[k].sources[1], g.edges[k].targets[1]} :
                   k \in 1..Len(g.edges)}

\* C23: no shared state between parallel analyses. When the steps of two
\* analyze_file calls for different files interleave on one DataFlowAnalyzer,
\* neither call raises and each returns the graph it returns when run alone.
ParallelCallsAsAlone ==
    \A c \in Callers :
        /\ calls.frames[c].pc # "raised"
        /\ calls.frames[c].pc = "returned" =>
               GraphShape(calls.frames[c].result)
                   = Alone(calls.frames[c].file, calls.frames[c].same)

\* C27: fresh state per file. Whatever calls were made before on the
\* analyzer, returned or aborted by an exception in the middle of their
\* traversal, the graph a call returns is the graph of its file analysed by
\* a new analyzer, and every scope, binding, usage and edge end in it was
\* created during the call.
FreshStatePerFile ==
    \A c \in Callers :
        calls.frames[c].pc = "returned" =>
            /\ GraphShape(calls.frames[c].result)
                   = Alone(calls.frames[c].file, calls.frames[c].same)
            /\ \A id \in IdsOf(calls.frames[c].result) :
                   id > calls.frames[c].uuid0

\* A call for `x;` has returned after a call for `function f(x) { x; }` was
\* aborted inside f, with the parameter bound, the usage recorded and the
\* scope of f on the stack.
ReturnedAfterAbort ==
    \E c, d \in Callers :
        /\ calls.frames[c].pc = "returned"
        /\ calls.frames[c].after_abort
        /\ calls.frames[c].file = 2
        /\ calls.frames[d].pc = "aborted"
        /\ calls.frames[d].file = 1
        /\ calls.frames[d].i = Len(CallSteps(calls.frames[d]))

----------------------------------------------------------------------------
(* Files with scopes of every kind *)

MaxScoped == 2

ScopedItems ==
    FlowItems
    \cup {Item(k, "f", "x", "", u, nl) :
            k \in {"function", "function_declaration", "class_declaration",
                   "arrow", "block"},
            u \in 0..Len(open), nl \in Layouts}

ParseScoped(it) ==
    /\ nitems < MaxScoped
    /\ Parse(it)

NextScoped ==
    \/ \E it \in ScopedItems : ParseScoped(it)
    \/ RequestedWhole
    \/ analyze_file

SpecScoped == Init /\ [][NextScoped]_vars

\* The scopes sc, in the order they were created, form a tree: one scope,
\* the global one, has no parent (no_parent); every other has a parent that
\* is one scope of sc, made before it, whose lines hold its own; no two
\* scopes share an id.
ScopeTree(sc, no_parent) ==
    /\ Cardinality({k \in 1..Len(sc) : sc[k].parent_id = no_parent}) = 1
    /\ \A k \in 1..Len(sc) : sc[k].parent_id = no_parent => sc[k].type = "global"
    /\ \A k \in 1..Len(sc) :
          sc[k].parent_id # no_parent =>
              /\ Cardinality({j \in 1..Len(sc) : sc[j].id = sc[k].parent_id}) = 1
              /\ \E j \in 1..(k - 1) :
                    /\ sc[j].id = sc[k].parent_id
                    /\ sc[j].start_line <= sc[k].start_line
                    /\ sc[k].end_line <= sc[j].end_line
    /\ \A j, k \in 1..Len(sc) : sc[j].id = sc[k].id => j = k

\* C24: the scope tree invariant. The scopes compute_focus_overlay builds
\* and the scopes analyze_file builds each form a tree rooted at the one
\* global scope: every other scope has exactly one parent, which exists and
\* was created before it (so every parent chain ends at the global scope),
\* ids are pairwise distinct, and a scope's lines lie within its parent's.
ScopeTreeInvariant ==
    /\ scopes # <<>> => ScopeTree(scopes, None)
    /\ analyses > 0 => ScopeTree(analyzer.scopes, 0)

\* Both analyses have run on a file of several lines with nested scopes,
\* a condition scope among them.
NestedScopesBuilt ==
    /\ Len(scopes) >= 3
    /\ \E k \in 1..Len(scopes) :
          scopes[k].parent_id # None /\ scopes[k].parent_id # scopes[1].id
    /\ analyses > 0
    /\ \E k \in 1..Len(analyzer.scopes) : analyzer.scopes[k].type = "if_condition"
    /\ \E k \in 1..Len(analyzer.scopes) :
          analyzer.scopes[k].start_line > analyzer.scopes[1].start_line
    /\ tree[1].end_line >= 2

----------------------------------------------------------------------------
(* Conditions of if statements *)

\* C25: no dedicated condition scope. The graph analyze_file returns has no
\* scope of type if_condition, and when the file has an if statement the
\* identifier of its condition is a usage node among the children of an `if`
\* scope.
NoConditionScope ==
    graph # None =>
        /\ \A n \in NodesOf(graph.root) : n.type # "if_condition"
        /\ (\E k \in 1..Len(tree) : tree[k].type = "if_statement") =>
               \E n \in NodesOf(graph.root) :
                   /\ n.type = "if"
                   /\ \E k \in 1..Len(n.children) : n.children[k].type = "usage"

----------------------------------------------------------------------------
(* Names declared again *)

\* The names of the declarators of the file that declare name in the scope
\* with id sid of compute_focus_overlay.
DeclaratorsIn(sid, name) ==
    {n \in 1..Len(tree) :
        /\ tree[n].type = "identifier"
        /\ tree[n].field = "name"
        /\ tree[tree[n].parent].type = "variable_declarator"
        /\ tree[n].text = name
        /\ EnclosingScope(n).id = sid}

\* The definitions analyze_file registered for name in scope sid, by their
\* place in self.definitions, which is the order they were made in.
RegisteredIn(sid, name) ==
    {i \in 1..Len(analyzer.definitions) :
        /\ analyzer.definitions[i].scope_id = sid
        /\ analyzer.definitions[i].name = name}

\* C26: last write wins. In both analyses a scope in which a name is
\* declared several times holds one binding for the name, that of the last
\* declaration in document order, and a scope in which it is not declared
\* holds none, whatever is declared in other scopes.
LastWriteWins ==
    /\ pc # "ready" =>
          \A k \in 1..Len(scopes), name \in Names :
              LET decls == DeclaratorsIn(scopes[k].id, name)
                  bound == {d \in scopes[k].vars : d.name = name}
              IN IF decls = {} THEN bound = {}
                 ELSE /\ Cardinality(bound) = 1
                      /\ \A d \in bound : d.def_col = Max(decls)
    /\ analyses > 0 =>
          /\ \A i, j \in 1..Len(analyzer.definitions) :
                i < j => analyzer.definitions[i].at < analyzer.definitions[j].at
          /\ \A k \in 1..Len(analyzer.scopes), name \in Names :
                LET regs  == RegisteredIn(analyzer.scopes[k].id, name)
                    bound == {i \in 1..Len(analyzer.scopes[k].variables) :
                                analyzer.scopes[k].variables[i].name = name}
                IN IF regs = {} THEN bound = {}
                   ELSE /\ Cardinality(bound) = 1
                        /\ \A i \in bound :
                              analyzer.scopes[k].variables[i]
                                  = analyzer.definitions[Max(regs)]

\* Both analyses have run on a file in which x is declared twice in one
\* scope and once in another.
DeclaredAgain ==
    /\ pc # "ready"
    /\ analyses > 0
    /\ \E k, j \in 1..Len(scopes) :
          /\ k # j
          /\ Cardinality(DeclaratorsIn(scopes[k].id, "x")) = 2
          /\ Cardinality(DeclaratorsIn(scopes[j].id, "x")) = 1
    /\ \E k, j \in 1..Len(analyzer.scopes) :
          /\ k # j
          /\ Cardinality(RegisteredIn(analyzer.scopes[k].id, "x")) = 2
          /\ Cardinality(RegisteredIn(analyzer.scopes[j].id, "x")) = 1

----------------------------------------------------------------------------
(* Files with for-of loops *)

MaxLoops == 3

LoopItems ==
    {Item(k, "x", "", "xs", u, nl) :
        k \in {"for_of", "for_of_reuse", "decl", "use"},
        u \in 0..Len(open), nl \in Layouts}

ParseLoops(it) ==
    /\ nitems < MaxLoops
    /\ Parse(it)

NextLoops ==
    \/ \E it \in LoopItems : ParseLoops(it)
    \/ RequestedWhole

SpecLoops == Init /\ [][NextLoops]_vars

\* The for-in/for-of statements and the form of their headers.
Loops == {f \in 1..Len(tree) : tree[f].type = "for_in_statement"}

DeclarationForm(f) ==
    \E c \in 1..Len(tree) : tree[c].parent = f /\ tree[c].type \in {"const", "let", "var"}

\* The identifiers that declare a name: declarators and the left-hand sides
\* of loop headers in declaration form.
Binders(name) ==
    {n \in 1..Len(tree) :
        /\ tree[n].type = "identifier"
        /\ tree[n].text = name
        /\ \/ tree[n].field = "name" /\ tree[tree[n].parent].type = "variable_declarator"
           \/ /\ tree[n].field = "left"
              /\ tree[n].parent \in Loops
              /\ DeclarationForm(tree[n].parent)}

\* The bindings of all scopes.
AllBindings == UNION {scopes[k].vars : k \in 1..Len(scopes)}

\* A loop that reuses a variable registers no binding, and its left-hand
\* identifier is a usage that resolves to a binding of the name when one of
\* the scopes around the loop has one.
ReusedVariableIsUsage ==
    \A f \in Loops :
        LET left == child_by_field_name(tree, f, "left")
        IN ~DeclarationForm(f) =>
              /\ \A d \in AllBindings : d.def_col # left
              /\ \E k \in 1..Len(usages) : usages[k].node = left
              /\ \A k \in 1..Len(usages) :
                    (/\ usages[k].node = left
                     /\ \E n \in Binders(tree[left].text) :
                           IsAncestor(tree, tree[tree[n].parent].parent, f)
                           \/ (tree[n].field = "left"
                               /\ IsAncestor(tree, tree[tree[n].parent].parent, f)))
                    => /\ usages[k].resolved # None
                       /\ usages[k].resolved.def_col \in Binders(tree[left].text)

\* The left-hand identifier of a loop in declaration form is no usage, and
\* the uses of its name in the body, unless the body declares the name
\* itself, resolve to the binding made at that identifier.
LoopVariableResolves ==
    \A f \in Loops :
        LET left == child_by_field_name(tree, f, "left")
            body == child_by_field_name(tree, f, "body")
        IN DeclarationForm(f) =>
              /\ \A k \in 1..Len(usages) : usages[k].node # left
              /\ (\A n \in Binders(tree[left].text) : ~IsAncestor(tree, body, n)) =>
                     \A k \in 1..Len(usages) :
                        (/\ IsAncestor(tree, body, usages[k].node)
                         /\ usages[k].name = tree[left].text)
                        => /\ usages[k].resolved # None
                           /\ usages[k].resolved.def_col = left

\* C28: loop bindings only for declaration-form headers. A for-of header
\* that reuses a variable registers no binding and its left-hand identifier
\* is a usage resolving to the existing binding; a header in declaration
\* form makes a binding to which the uses of the loop variable in the body
\* resolve.
LoopBindings ==
    pc # "ready" => ReusedVariableIsUsage /\ LoopVariableResolves

----------------------------------------------------------------------------
(* Files with arrow functions *)

MaxArrows == 3

ArrowItems ==
    {Item(k, "y", "x", s, u, nl) :
        k \in {"arrow_expression", "arrow_no_parameter", "arrow", "decl", "use"},
        s \in {"x", "y"}, u \in 0..Len(open), nl \in Layouts}

ParseArrows(it) ==
    /\ nitems < MaxArrows
    /\ Parse(it)

NextArrows ==
    \/ \E it \in ArrowItems : ParseArrows(it)
    \/ RequestedWhole

SpecArrows == Init /\ [][NextArrows]_vars

\* The identifiers that are the expression body of an arrow function.
ExpressionBodies ==
    {n \in 1..Len(tree) :
        /\ tree[n].type = "identifier"
        /\ tree[n].field = "body"
        /\ tree[tree[n].parent].type = "arrow_function"}

\* C29: bare arrow parameter only. An identifier that is the expression
\* body of an arrow function is not registered as a binding of any scope,
\* and it is a usage that resolves to a binding made elsewhere or to none.
BareArrowParameterOnly ==
    pc # "ready" =>
        \A n \in ExpressionBodies :
            /\ \A d \in AllBindings : d.def_col # n
            /\ \E k \in 1..Len(usages) : usages[k].node = n
            /\ \A k \in 1..Len(usages) :
                  usages[k].node = n =>
                      \/ usages[k].resolved = None
                      \/ usages[k].resolved.def_col # n

----------------------------------------------------------------------------
(* The scope stack during a traversal *)

\* The analyzer's state before the first step of a traversal and after each
\* of its steps: element k + 1 is the state after k steps.
RECURSIVE StatesAfter(_, _, _, _)
StatesAfter(st, t, steps, i) ==
    IF i > Len(steps) THEN <<st>>
    ELSE <<st>> \o StatesAfter(TraverseStep(st, t, steps[i]), t, steps, i + 1)

\* The answer `is` gave in the analysis made, as far as it was asked.
AnswerOfIs == IF node_is = "not asked" THEN "new object" ELSE node_is

\* The node a scope is made for: the nearest node, from n upwards, that is a
\* scope boundary or the condition of an if statement; the root for the
\* global scope.
RECURSIVE ScopeNodeAround(_, _)
ScopeNodeAround(t, n) ==
    IF n = root_node THEN root_node
    ELSE IF df_is_scope_boundary(t, n) THEN n
    ELSE IF t[n].field = "condition" /\ t[t[n].parent].type = "if_statement" THEN n
    ELSE ScopeNodeAround(t, t[n].parent)

\* Step i of steps makes a scope.
MakesScope(t, steps, i) ==
    \/ steps[i].step = "push_condition"
    \/ steps[i].step = "visit" /\ df_is_scope_boundary(t, steps[i].node)

\* The node the scope with id sid was made for, in the run whose states
\* are run.
NodeOfScope(t, steps, run, sid) ==
    IF sid = run[1].stack[1] THEN root_node
    ELSE LET i == CHOOSE i \in 1..Len(steps) :
                     MakesScope(t, steps, i) /\ run[i].uuid + 1 = sid
         IN steps[i].node

\* The stack is never empty and has the global scope at the bottom.
GlobalAtBottom(run) ==
    \A k \in 1..Len(run) :
        run[k].stack # <<>> /\ run[k].stack[1] = run[1].stack[1]

\* Every _traverse call and every condition sub-traversal returns with the
\* stack it was entered with, and the stack holds only the global scope at
\* the end.
PushesMatched(t, steps, run, same) ==
    /\ \A i \in 1..Len(steps) :
          /\ steps[i].step = "visit" =>
                run[i + Len(Traversal(t, steps[i].node, same))].stack = run[i].stack
          /\ steps[i].step = "push_condition" =>
                run[i + Len(Traversal(t, steps[i].node, same)) + 2].stack
                    = run[i].stack
    /\ run[Len(run)].stack = << run[1].stack[1] >>

\* When a node is visited, the top of the stack is the scope made for the
\* nearest scope node around it.
TopIsInnermost(t, steps, run) ==
    \A i \in 1..Len(steps) :
        steps[i].step = "visit" =>
            NodeOfScope(t, steps, run, run[i + 1].stack[Len(run[i + 1].stack)])
                = ScopeNodeAround(t, steps[i].node)

\* The lookup of the enclosing scope for the name of a function or class
\* declaration finds a second scope on the stack.
EnclosingOnStack(t, steps, run) ==
    \A i \in 1..Len(steps) :
        (/\ steps[i].step = "visit"
         /\ t[steps[i].node].type \in {"function_declaration", "class_declaration"})
        => Len(run[i + 1].stack) >= 2

\* C30: scope stack discipline in DataFlowAnalyzer. Throughout a traversal
\* the stack is not empty and has Global at the bottom; every _traverse call
\* and condition sub-traversal leaves the stack as it found it and only
\* Global is left at the end; the top of the stack is the innermost scope
\* around the node visited; and the offset -1 lookup stays inside the stack.
StackDiscipline ==
    analyses > 0 =>
        \E steps \in {Traversal(tree, root_node, AnswerOfIs)} :
        \E run \in {StatesAfter(WithGlobalScope(NoCalls.self, tree), tree, steps, 1)} :
            /\ GlobalAtBottom(run)
            /\ PushesMatched(tree, steps, run, AnswerOfIs)
            /\ TopIsInnermost(tree, steps, run)
            /\ EnclosingOnStack(tree, steps, run)

====
